---- MODULE Spec2Model ----
(***************************************************************************)
(* A model of the embedded scripting runtime of js/src/runtime.rs: a pool  *)
(* of worker threads, each owning one interpreter context, fed by one      *)
(* unbounded MPMC request channel, answering on one-shot reply channels.   *)
(*                                                                         *)
(* Strings are modelled as sequences of tokens (a token is a short text),  *)
(* so that concatenation, joining and line termination are computed.       *)
(***************************************************************************)
EXTENDS Integers, Sequences, FiniteSets, TLC

\* ------------------------------------------------------------------ bounds
MaxWorkers == 2      \* largest RuntimeConfig.workers explored
MaxReq == 2          \* number of execute_script calls explored
MaxNew == 2           \* number of further Runtime::new calls explored
MaxBaseLen == 3      \* longest base module name handed to the resolver
MaxNameLen == 5      \* longest specifier handed to the resolver

Workers == 1..MaxWorkers
Reqs == 1..MaxReq

\* ------------------------------------------------------------ script input
None == "None"                      \* Option::None
SomeArg == "7"                      \* Some(json!(7))

\* Script (runtime.rs 54-70): the three request variants.  Names and code
\* texts are token sequences.
ScriptFunction(args, code) == [variant |-> "Function", args |-> args, code |-> code, name |-> <<>>]
ScriptCompiledFunction(args, name) == [variant |-> "CompiledFunction", args |-> args, code |-> <<>>, name |-> name]
ScriptRenderPage(args, name) == [variant |-> "RenderPage", args |-> args, code |-> <<>>, name |-> name]

\* ---------------------------------------------------------- the JS engine
\* The script texts explored.  Each one-token text stands for a JavaScript
\* source:
\*   "log"    console.log('hello','world');console.log('!');1 + 2
\*   "throw"  console.log('oops'); throw new Error()
\*   "syntax" 1 +                       (does not parse)
\*   "loop"   console.log('loop forever'); while (true) {}
\*   "setg"   globalThis.g = args
\*   "readg"  globalThis.g
\*   "sum"    args                      (a body that reads args)
\*   "pages"  globalThis.Pages = {home}  (a pages/index.js module)
\*   "count"  globalThis.n = (globalThis.n || 0) + 1
Stmt(op, vals) == [op |-> op, vals |-> vals]

Prog(ok, stmts, value, page) == [ok |-> ok, stmts |-> stmts, value |-> value, page |-> page]

\* format! of prepare_script (runtime.rs 171-174)
PageCode(name) ==
    <<"globalThis.Pages.">> \o name \o <<" ? globalThis.Pages.">> \o name
        \o <<"(args): 'Page \"">> \o name \o <<"\" not found'">>

\* What the engine makes of a source text: whether it parses, the statements
\* it runs in order, and the expression whose value is the result.
Program(code) ==
    IF Len(code) = 7 /\ code[1] = "globalThis.Pages." /\ code[3] = " ? globalThis.Pages."
    THEN Prog(TRUE, <<>>, "$page", code[2])
    ELSE IF Len(code) # 1 THEN Prog(FALSE, <<>>, "undefined", "")
    ELSE CASE code[1] = "log" -> Prog(TRUE, <<Stmt("log", <<"hello", "world">>), Stmt("log", <<"!">>)>>, "3", "")
           [] code[1] = "throw" -> Prog(TRUE, <<Stmt("log", <<"oops">>), Stmt("throw", <<>>)>>, "undefined", "")
           [] code[1] = "loop" -> Prog(TRUE, <<Stmt("log", <<"loop forever">>), Stmt("loop", <<>>)>>, "undefined", "")
           [] code[1] = "setg" -> Prog(TRUE, <<Stmt("setg", <<>>)>>, "$g", "")
           [] code[1] = "readg" -> Prog(TRUE, <<>>, "$g", "")
           [] code[1] = "sum" -> Prog(TRUE, <<>>, "$args", "")
           [] code[1] = "pages" -> Prog(TRUE, <<Stmt("setpages", <<"home">>)>>, "undefined", "")
           [] code[1] = "count" -> Prog(TRUE, <<Stmt("incn", <<>>)>>, "$n", "")
           [] OTHER -> Prog(FALSE, <<>>, "undefined", "")

\* serde to_js of Option<Value> (runtime.rs 430): None becomes null
to_js(args) == IF args = None THEN "null" ELSE args

\* Globals of a freshly built context, with ctx bound (runtime.rs 280-286).
\* n is the global the counting script keeps (0 stands for undefined); users
\* is a history field: the threads that have called into the context.
NewGlobals == [ctx |-> "script", args |-> "undefined", g |-> "undefined", n |-> 0,
               hasPages |-> FALSE, Pages |-> {}, users |-> {}]

\* The value of a program's final expression in a context: [ok, out], where
\* ok = FALSE is a thrown exception and out is the stringified value.
ValueOf(prog, globals) ==
    CASE prog.value = "$args" -> [ok |-> TRUE, out |-> <<globals.args>>]
      [] prog.value = "$g" -> [ok |-> TRUE, out |-> <<globals.g>>]
      [] prog.value = "$n" -> [ok |-> TRUE, out |-> <<ToString(globals.n)>>]
      [] prog.value = "$page" ->
            IF ~globals.hasPages THEN [ok |-> FALSE, out |-> <<>>]
            ELSE IF prog.page \in globals.Pages
                 THEN [ok |-> TRUE, out |-> <<"<", prog.page, ">", globals.args, "</", prog.page, ">">>]
                 ELSE [ok |-> TRUE, out |-> <<"Page \"", prog.page, "\" not found">>]
      [] OTHER -> [ok |-> TRUE, out |-> <<prog.value>>]

\* ------------------------------------------------------------ Console sink
RECURSIVE JoinComma(_)
\* values.join(", ") (runtime.rs 266-270)
JoinComma(vals) ==
    IF Len(vals) = 0 THEN <<>>
    ELSE IF Len(vals) = 1 THEN <<vals[1]>>
    ELSE <<vals[1], ", ">> \o JoinComma(Tail(vals))

\* Console::new (runtime.rs 257-261): an empty buffer.  A buffer is a
\* sequence of entries, one per log call: the text written and, as a history
\* field, the request whose evaluation made the call (0 during bootstrap).
ConsoleNew == <<>>

\* ConsoleBackend::log (runtime.rs 265-274): writeln! of the joined values
ConsoleLog(output, vals, by) == Append(output, [text |-> JoinComma(vals) \o <<"\n">>, by |-> by])

RECURSIVE ConsoleText(_)
\* the String held by the buffer
ConsoleText(output) ==
    IF Len(output) = 0 THEN <<>> ELSE output[1].text \o ConsoleText(Tail(output))

ConsoleBy(output) == [i \in 1..Len(output) |-> output[i].by]

\* ----------------------------------------------------------------- results
\* Result<ScriptOutput, Error> with the request it was computed for (of).
Ok(output, console_output, lines_by, of) ==
    [tag |-> "Ok", output |-> output, console_output |-> console_output,
     lines_by |-> lines_by, error |-> "", msg |-> <<>>, of |-> of]
Err(error, msg, of) ==
    [tag |-> "Err", output |-> <<>>, console_output |-> <<>>,
     lines_by |-> <<>>, error |-> error, msg |-> msg, of |-> of]
NoResult == [tag |-> "None", output |-> <<>>, console_output |-> <<>>,
             lines_by |-> <<>>, error |-> "", msg |-> <<>>, of |-> 0]

\* ------------------------------------------------- transpiler and loader
\* transpile (runtime.rs 450-479): TypeScript text to plain JS text.
\*   "sum_ts"  the TypeScript of "sum";  "bad_ts"  TypeScript that does not parse
transpile(code) ==
    IF Len(code) # 1 THEN [ok |-> FALSE, text |-> <<>>]
    ELSE CASE code[1] = "sum_ts" -> [ok |-> TRUE, text |-> <<"sum">>]
           [] code[1] = "bad_ts" -> [ok |-> FALSE, text |-> <<>>]
           [] OTHER -> [ok |-> TRUE, text |-> code]

\* name.ends_with(".ts") (runtime.rs 313): a name is <<stem, extension>>
EndsWithTs(name) == Len(name) > 0 /\ name[Len(name)] = ".ts"

\* One entry of the loop of context::init (runtime.rs 312-327): the handle
\* stored under name, represented by the text that was compiled.
CompileEntry(name, code) ==
    LET t == IF EndsWithTs(name) THEN transpile(code) ELSE [ok |-> TRUE, text |-> code]
    IN IF t.ok /\ Program(t.text).ok THEN [ok |-> TRUE, handle |-> t.text]
       ELSE [ok |-> FALSE, handle |-> <<>>]

\* An unset OnceLock, and a committed tree: path |-> file text
NoDir == [set |-> FALSE, files |-> <<>>]
Dir(files) == [set |-> TRUE, files |-> files]

\* root.contains(path) / dir.get_file(path)
Contains(dir, path) == \E i \in 1..Len(dir.files) : dir.files[i].path = path
GetFile(dir, path) == (CHOOSE i \in 1..Len(dir.files) : dir.files[i].path = path)

\* transpile_jsx (runtime.rs 482-512): JSX text to plain JS text.
\*   "home_jsx"  the JSX of a page, whose plain JS is "home_js";
\*   "bad_jsx"   JSX that does not parse
transpile_jsx(code) ==
    IF Len(code) # 1 THEN [ok |-> FALSE, text |-> <<>>]
    ELSE CASE code[1] = "home_jsx" -> [ok |-> TRUE, text |-> <<"home_js">>]
           [] code[1] = "bad_jsx" -> [ok |-> FALSE, text |-> <<>>]
           [] code[1] \in {"sum_ts", "bad_ts"} -> [ok |-> FALSE, text |-> <<>>]
           [] OTHER -> [ok |-> TRUE, text |-> code]

\* The module names explored and the extension each ends with
Extension(module_name) ==
    CASE module_name \in {"pages/home.jsx", "bad.jsx"} -> ".jsx"
      [] module_name \in {"view.tsx"} -> ".tsx"
      [] module_name \in {"lib.ts"} -> ".ts"
      [] module_name \in {"lib.js", "missing.js", "pages/index.js", "util/index.js", "blob.js"} -> ".js"
      [] module_name \in {"assets/logo.txt"} -> ".txt"
      [] OTHER -> ""

\* module_name.ends_with(ext) (runtime.rs 351)
ends_with(module_name, ext) == Extension(module_name) = ext

\* file.contents_utf8() (runtime.rs 347-349): None for bytes that are not
\* UTF-8, which the text <<"\\xff">> stands for
contents_utf8(text) == IF text = <<"\\xff">> THEN [ok |-> FALSE, text |-> <<>>] ELSE [ok |-> TRUE, text |-> text]

\* a loader result: the text, or the anyhow error
Loaded(text) == [ok |-> TRUE, text |-> text, err |-> ""]
LoadErr(err) == [ok |-> FALSE, text |-> <<>>, err |-> err]

\* module_loader as it would be if the source tree were fetched before the
\* built-in name is looked at
module_loader_dir_first(dir, module_name) ==
    IF ~dir.set THEN LoadErr("JS_SRC_DIR not initialized")
    ELSE IF module_name = "/jsx-runtime" THEN Loaded(<<"jsx.js">>)
    ELSE IF ~Contains(dir, module_name) THEN LoadErr("Module not found")
    ELSE Loaded(dir.files[GetFile(dir, module_name)].text)

\* module_loader of runtime.rs 333-362
module_loader(dir, module_name) ==
    IF module_name = "/jsx-runtime" THEN Loaded(<<"jsx.js">>)
    ELSE IF ~dir.set THEN LoadErr("JS_SRC_DIR not initialized")
    ELSE IF ~Contains(dir, module_name) THEN LoadErr("Module not found")
    ELSE LET source == contents_utf8(dir.files[GetFile(dir, module_name)].text)
         IN IF ~source.ok THEN LoadErr("Module is not valid UTF-8")
            ELSE IF ends_with(module_name, ".jsx")
                 THEN (IF transpile_jsx(source.text).ok
                       THEN Loaded(transpile_jsx(source.text).text)
                       ELSE LoadErr("transpile"))
                 ELSE Loaded(source.text)

\* --------------------------------------------------------- module resolver
\* The names handed to the resolver are sequences of characters, so that
\* prefixes, separators and components are computed.
\* str::starts_with
starts_with(s, prefix) == Len(s) >= Len(prefix) /\ SubSeq(s, 1, Len(prefix)) = prefix

RECURSIVE SplitSlash(_)
\* the pieces of a path between its separators, empty pieces included
SplitSlash(s) ==
    IF Len(s) = 0 THEN << <<>> >>
    ELSE LET rest == SplitSlash(Tail(s))
         IN IF Head(s) = "/" THEN << <<>> >> \o rest
            ELSE << <<Head(s)>> \o rest[1] >> \o Tail(rest)

\* Path::components (std::path): RootDir for a leading separator, CurDir
\* only for a leading "." of a path without root, ParentDir for "..",
\* Normal for every other non-empty piece; empty pieces and inner "." are
\* skipped.  A component is [kind, text].
Components(s) ==
    LET pieces == SplitSlash(s)
        rooted == starts_with(s, <<"/">>)
        kept == SelectSeq(pieces, LAMBDA p : p # <<>> /\ p # <<".">>)
        named == [i \in 1..Len(kept) |->
                    IF kept[i] = <<".", ".">> THEN [kind |-> "ParentDir", text |-> kept[i]]
                    ELSE [kind |-> "Normal", text |-> kept[i]]]
    IN (IF rooted THEN <<[kind |-> "RootDir", text |-> <<"/">>]>>
        ELSE IF pieces[1] = <<".">> THEN <<[kind |-> "CurDir", text |-> <<".">>]>>
        ELSE <<>>) \o named

RECURSIVE JoinSlash(_)
\* the texts of a component list with a separator between them
JoinSlash(parts) ==
    IF Len(parts) = 0 THEN <<>>
    ELSE IF Len(parts) = 1 THEN parts[1]
    ELSE parts[1] \o <<"/">> \o JoinSlash(Tail(parts))

\* the path a component list spells
AsPath(comps) ==
    IF Len(comps) > 0 /\ comps[1].kind = "RootDir"
    THEN <<"/">> \o JoinSlash([i \in 1..(Len(comps) - 1) |-> comps[i + 1].text])
    ELSE JoinSlash([i \in 1..Len(comps) |-> comps[i].text])

\* parent as it would be if the specifier were joined to the base itself
\* and not to the directory it lies in
parent_whole(s) == s

\* Path::parent().unwrap_or("") (runtime.rs 371-373): the path without its
\* last component; None, hence "", for an empty path or a bare root
parent(s) ==
    LET comps == Components(s)
    IN IF Len(comps) = 0 \/ comps[Len(comps)].kind = "RootDir" THEN <<>>
       ELSE AsPath(SubSeq(comps, 1, Len(comps) - 1))

\* Path::join (runtime.rs 374): an absolute path replaces, a relative one is
\* appended after a separator
join(dir, name) ==
    IF starts_with(name, <<"/">>) THEN name
    ELSE IF Len(dir) = 0 THEN name
    ELSE IF dir[Len(dir)] = "/" THEN dir \o name
    ELSE dir \o <<"/">> \o name

\* push_component as it would be if ".." were kept instead of cancelling the
\* component before it
push_component_keep(parts, comp) ==
    CASE comp.kind = "ParentDir" -> Append(parts, comp.text)
      [] comp.kind = "CurDir" -> parts
      [] comp.kind = "Normal" -> Append(parts, comp.text)
      [] OTHER -> <<>>

\* One turn of the loop over the components (runtime.rs 378-394)
push_component(parts, comp) ==
    CASE comp.kind = "ParentDir" ->
            IF Len(parts) > 0 /\ parts[Len(parts)] # <<".", ".">>
            THEN SubSeq(parts, 1, Len(parts) - 1)
            ELSE Append(parts, comp.text)
      [] comp.kind = "CurDir" -> parts
      [] comp.kind = "Normal" -> Append(parts, comp.text)
      [] OTHER -> <<>>

RECURSIVE Fold(_, _)
\* the loop of runtime.rs 378-394 over a component list
Fold(parts, comps) ==
    IF Len(comps) = 0 THEN parts ELSE Fold(push_component(parts, comps[1]), Tail(comps))

\* is_relative as it would be if every name but a rooted one were resolved
\* against the base
is_relative_unless_rooted(name) == ~starts_with(name, <<"/">>)

\* module_name.starts_with("./") || module_name.starts_with("../")
\* (runtime.rs 370)
is_relative(name) == starts_with(name, <<".", "/">>) \/ starts_with(name, <<".", ".", "/">>)

\* bare as it would be if a leading separator were trimmed from the name
bare_trimmed(name) == IF starts_with(name, <<"/">>) THEN Tail(name) ELSE name

\* module_name.to_string() (runtime.rs 402)
bare(name) == name

\* module_normalize (runtime.rs 364-413, and the same text in context.rs
\* 172-221)
module_normalize(module_base_name, module_name) ==
    IF is_relative(module_name)
    THEN JoinSlash(Fold(<<>>, Components(join(parent(module_base_name), module_name))))
    ELSE bare(module_name)

\* ------------------------------------------------------- statement effects
\* One statement of a running program acting on the context: its globals and
\* the installed console buffer.  thrown = TRUE is an uncaught exception.
ExecStmt(stmt, globals, output, by) ==
    CASE stmt.op = "log" -> [globals |-> globals, output |-> ConsoleLog(output, stmt.vals, by), thrown |-> FALSE]
      [] stmt.op = "setg" -> [globals |-> [globals EXCEPT !.g = globals.args], output |-> output, thrown |-> FALSE]
      [] stmt.op = "incn" -> [globals |-> [globals EXCEPT !.n = @ + 1], output |-> output, thrown |-> FALSE]
      [] stmt.op = "setpages" ->
            [globals |-> [globals EXCEPT !.hasPages = TRUE, !.Pages = {stmt.vals[i] : i \in 1..Len(stmt.vals)}],
             output |-> output, thrown |-> FALSE]
      [] OTHER -> [globals |-> globals, output |-> output, thrown |-> TRUE]

RECURSIVE RunAll(_, _, _)
\* run a terminating statement list to its end or to the first exception
RunAll(stmts, globals, output) ==
    IF Len(stmts) = 0 THEN [globals |-> globals, output |-> output, thrown |-> FALSE]
    ELSE LET r == ExecStmt(stmts[1], globals, output, 0)
         IN IF r.thrown THEN r ELSE RunAll(Tail(stmts), r.globals, r.output)

\* context.run_module(name) during bootstrap (runtime.rs 296, 304)
run_module(dir, name, globals, output) ==
    LET src == module_loader(dir, name)
        prog == Program(src.text)
    IN IF name = "/jsx-runtime" THEN [globals |-> globals, output |-> output, thrown |-> FALSE]
       ELSE IF ~src.ok \/ ~prog.ok THEN [globals |-> globals, output |-> output, thrown |-> TRUE]
       ELSE RunAll(prog.stmts, globals, output)

\* init as it would be if an entry that fails to transpile or compile were
\* logged and left out of the table
init_skip_failed(functions, dir) ==
    LET jsx == run_module(dir, "/jsx-runtime", NewGlobals, ConsoleNew)
        pages == IF dir.set /\ Contains(dir, "pages/index.js")
                 THEN run_module(dir, "pages/index.js", jsx.globals, jsx.output)
                 ELSE jsx
        good == SelectSeq(functions, LAMBDA f : CompileEntry(f.name, f.code).ok)
    IN [ok |-> ~pages.thrown,
        globals |-> pages.globals,
        output |-> pages.output,
        compiled_fns |-> [i \in 1..Len(good) |->
                            [name |-> good[i].name, handle |-> CompileEntry(good[i].name, good[i].code).handle]]]

\* context::init (runtime.rs 277-331): [ok, globals, output, compiled_fns].
\* functions is a sequence of [name, code] entries with distinct names.
init(functions, dir) ==
    LET jsx == run_module(dir, "/jsx-runtime", NewGlobals, ConsoleNew)
        pages == IF dir.set /\ Contains(dir, "pages/index.js")
                 THEN run_module(dir, "pages/index.js", jsx.globals, jsx.output)
                 ELSE jsx
        entries == [i \in 1..Len(functions) |-> CompileEntry(functions[i].name, functions[i].code)]
    IN [ok |-> ~pages.thrown /\ \A i \in 1..Len(functions) : entries[i].ok,
        globals |-> pages.globals,
        output |-> pages.output,
        compiled_fns |-> [i \in 1..Len(functions) |-> [name |-> functions[i].name, handle |-> entries[i].handle]]]

\* compiled_fns.get(&name) (runtime.rs 178-179)
HasFn(compiled_fns, name) == \E i \in 1..Len(compiled_fns) : compiled_fns[i].name = name
GetFn(compiled_fns, name) == compiled_fns[CHOOSE i \in 1..Len(compiled_fns) : compiled_fns[i].name = name].handle

\* prepare_script as it would be if an unknown name fell back to inline
\* text, the way a page does
prepare_script_fallback(script, compiled_fns) ==
    IF script.variant = "Function" \/ script.variant = "RenderPage" \/ HasFn(compiled_fns, script.name)
    THEN [ok |-> TRUE, args |-> script.args,
          kind |-> IF script.variant = "CompiledFunction" THEN "Compiled" ELSE "Code",
          code |-> IF script.variant = "Function" THEN script.code
                   ELSE IF script.variant = "RenderPage" THEN PageCode(script.name)
                   ELSE GetFn(compiled_fns, script.name),
          msg |-> <<>>]
    ELSE [ok |-> TRUE, args |-> script.args, kind |-> "Code", code |-> script.name, msg |-> <<>>]

\* Runtime::prepare_script (runtime.rs 163-186)
prepare_script(script, compiled_fns) ==
    CASE script.variant = "RenderPage" ->
            [ok |-> TRUE, args |-> script.args, kind |-> "Code", code |-> PageCode(script.name), msg |-> <<>>]
      [] script.variant = "Function" ->
            [ok |-> TRUE, args |-> script.args, kind |-> "Code", code |-> script.code, msg |-> <<>>]
      [] OTHER ->
            IF HasFn(compiled_fns, script.name)
            THEN [ok |-> TRUE, args |-> script.args, kind |-> "Compiled", code |-> GetFn(compiled_fns, script.name), msg |-> <<>>]
            ELSE [ok |-> FALSE, args |-> script.args, kind |-> "", code |-> <<>>,
                  msg |-> <<"function ">> \o script.name \o <<" not found">>]

\* -------------------------------------------------------------------- state
VARIABLES
    workers,       \* RuntimeConfig.workers: the number of threads spawned
    functions,     \* RuntimeConfig.functions, as cloned to every worker
    JS_SRC_DIR,    \* the process-wide OnceLock<Dir>
    supplied,      \* history: config.js_src of every Runtime::new call, in order
    call,          \* the call of a loader callback under study, with its results
    api,           \* history: api[r] holds the arguments of render when it made request r
    senders,       \* live Runtime handles (clones of the channel's Sender)
    queue,         \* messages in the crossbeam channel, oldest first
    script,        \* script[r]: the Script passed to the r-th execute_script call
    chan,          \* chan[r]: the one-shot reply channel of request r
    delivered,     \* delivered[r]: the results respond_to.send accepted, in order
    pc,            \* pc[w]: where worker thread w is
    cur,           \* cur[w]: the message worker w took from the channel
    prog,          \* prog[w]: the program worker w is evaluating
    ip,            \* ip[w]: the next statement of prog[w]
    failed,        \* failed[w]: the Err worker w is about to send, if any
    globals,       \* globals[w]: the global object of worker w's context
    console,       \* console[b]: the text buffers of the installed Consoles (see SinkOf)
    compiled_fns,  \* compiled_fns[w]: the function table of worker w
    received,      \* received[w]: the ids of the messages worker w received, in order
    replied,       \* replied[w]: the ids of the messages worker w called send for, in order
    order          \* the ids of the requests whose result was delivered, in order

vars == <<workers, functions, JS_SRC_DIR, supplied, call, api, senders, queue, script, chan, delivered,
          pc, cur, prog, ip, failed, globals, console, compiled_fns, received, replied, order>>

config == <<workers, functions, JS_SRC_DIR, supplied, call, api>>
workerVars == <<pc, cur, prog, ip, failed, globals, console, compiled_fns, received, replied>>

\* Message::ExecuteScript (runtime.rs 84-89); id is a history field
Message(r, s) == [id |-> r, script |-> s, respond_to |-> r]
NoMessage == [id |-> 0, script |-> ScriptFunction(None, <<>>), respond_to |-> 0]
NoProg == Prog(FALSE, <<>>, "undefined", "")

\* tokio oneshot::channel (runtime.rs 214): tx is "none" before the call,
\* "alive" while the Sender exists, "sent" once send stored a value and
\* "dropped" when the Sender was dropped without sending; rx likewise.
\* enq records whether the request channel accepted the message.
NoChan == [tx |-> "none", rx |-> "none", value |-> NoResult, enq |-> FALSE]

\* Receivers as it would be if the Runtime kept the Receiver it cloned for
\* the threads (0 stands for the handle)
ReceiversWithHandle == {w \in Workers : pc[w] \in {"boot", "recv", "busy", "loop"}} \cup {0}

\* The threads that hold a clone of the Receiver
Receivers == {w \in Workers : pc[w] \in {"boot", "recv", "busy", "loop"}}

\* Dropping the messages of q drops their reply Senders
DropMessages(q, ch) ==
    [r \in Reqs |-> IF \E i \in 1..Len(q) : q[i].respond_to = r
                    THEN [ch[r] EXCEPT !.tx = "dropped"] ELSE ch[r]]

\* What the future of execute_script resolves to (runtime.rs 223-227):
\* the value sent, or Unexpected when the Sender is gone; NoResult = pending.
FutureValue(r) ==
    CASE chan[r].tx = "sent" -> chan[r].value
      [] chan[r].tx = "dropped" -> Err("Unexpected", <<"channel closed">>, r)
      [] OTHER -> NoResult

\* ------------------------------------------------------------ configurations
NoFunctions == <<>>

\* get_or_init as it would be if the cell were a plain static that every
\* construction assigns
get_or_init_overwrite(cell, dir) == dir

\* OnceLock::get_or_init (runtime.rs 117): the first value stays
get_or_init(cell, dir) == IF cell.set THEN cell ELSE dir

\* if let Some(dir) = config.js_src { JS_SRC_DIR.get_or_init(|| dir); }
\* (runtime.rs 116-118); NoDir stands for js_src = None
commit(cell, js_src) == IF js_src.set THEN get_or_init(cell, js_src) ELSE cell

\* request not made, or made by execute_script
NoApi == [op |-> "none", args |-> None, page |-> <<>>]

\* The state after Runtime::new (runtime.rs 115-131): JS_SRC_DIR committed,
\* the channel created, `workers` threads spawned and not yet running.
PoolInitWith(n, fns, dir) ==
    /\ workers = n
    /\ functions = fns
    /\ JS_SRC_DIR = commit(NoDir, dir)
    /\ supplied = <<dir>>
    /\ senders = 1
    /\ queue = <<>>
    /\ script = [r \in Reqs |-> NoMessage.script]
    /\ chan = [r \in Reqs |-> NoChan]
    /\ delivered = [r \in Reqs |-> <<>>]
    /\ pc = [w \in Workers |-> IF w <= n THEN "boot" ELSE "none"]
    /\ cur = [w \in Workers |-> NoMessage]
    /\ prog = [w \in Workers |-> NoProg]
    /\ ip = [w \in Workers |-> 0]
    /\ failed = [w \in Workers |-> NoResult]
    /\ globals = [w \in Workers |-> NewGlobals]
    /\ console = [w \in Workers |-> ConsoleNew]
    /\ compiled_fns = [w \in Workers |-> <<>>]
    /\ received = [w \in Workers |-> <<>>]
    /\ replied = [w \in Workers |-> <<>>]
    /\ order = <<>>
    /\ api = [r \in Reqs |-> NoApi]

\* no loader callback is under study
NoCall == [op |-> "none"]

InitWith(n, fns, dir) ==
    /\ PoolInitWith(n, fns, dir)
    /\ call = NoCall

\* SinkOf as it would be if the buffer were one process-wide static
SinkOfShared(w) == 1

\* Console.output (runtime.rs 252-254): every Console owns its buffer, so
\* the buffer worker w's context writes to is w's own
SinkOf(w) == w

\* ContextOf as it would be if one context were built in Runtime::new and
\* handed to every worker
ContextOfShared(w) == 1

\* let (context, compiled_fns) = context::init(functions) (runtime.rs 140)
\* is a local of the thread's closure: the context worker w calls into is
\* the one w built
ContextOf(w) == w

\* fns_after_prepare as it would be if an inline script were cached in the
\* table after its first use
fns_after_prepare_cache(s, fns) ==
    IF s.variant = "Function" /\ \A i \in 1..Len(fns) : fns[i].name # s.code
    THEN Append(fns, [name |-> s.code, handle |-> s.code])
    ELSE fns

\* fns_after_prepare as it would be if the handle were taken out of the
\* table (remove) instead of cloned
fns_after_prepare_take(s, fns) ==
    IF s.variant = "CompiledFunction"
    THEN SelectSeq(fns, LAMBDA e : e.name # s.name)
    ELSE fns

\* The table after prepare_script (runtime.rs 149, 163-186): it is borrowed
\* immutably (&HashMap) and the handle found is cloned (to_owned)
fns_after_prepare(s, fns) == fns

\* eval_context as it would be if every request were evaluated in a context
\* built anew (users is history and stays)
eval_context_fresh(old) == [NewGlobals EXCEPT !.users = old.users]

\* The globals of the context handed to context::eval (runtime.rs 152): the
\* one context the thread built before its loop (runtime.rs 140), as the
\* evaluations before left it
eval_context(old) == old

\* bind_args as it would be if a request without args skipped the binding
bind_args_if_some(old, args) == IF args = None THEN old ELSE to_js(args)

\* to_js(&args) and set_global("args", ..) (runtime.rs 430-431): the value of
\* the args global after the binding, given the one before
bind_args(old, args) == to_js(args)

\* set_console as it would be if eval kept the Console already installed
set_console_keep(old) == old

\* context.set_console(Box::new(Console::new())) (runtime.rs 423-426): the
\* buffer installed for an evaluation, given the one installed before
set_console(old) == ConsoleNew

\* ------------------------------------------------------------------ actions
\* Runtime::execute_script (runtime.rs 213-221), up to the await: create the
\* reply channel and send the message.  The send fails, and drops the message
\* with its Sender, when no Receiver is left.  Requests are numbered in the
\* order of the calls.
Submit(r, s) ==
    /\ senders > 0
    /\ chan[r].rx = "none"
    /\ \A q \in Reqs : q < r => chan[q].rx # "none"
    /\ script' = [script EXCEPT ![r] = s]
    /\ IF Receivers = {}
       THEN /\ chan' = [chan EXCEPT ![r] = [tx |-> "dropped", rx |-> "alive", value |-> NoResult, enq |-> FALSE]]
            /\ UNCHANGED queue
       ELSE /\ chan' = [chan EXCEPT ![r] = [tx |-> "alive", rx |-> "alive", value |-> NoResult, enq |-> TRUE]]
            /\ queue' = Append(queue, Message(r, s))
    /\ UNCHANGED <<config, senders, delivered, order, workerVars>>

\* DropFuture as it would be if dropping the future cancelled the request:
\* a message still queued is taken out of the channel.
DropFutureCancels(r) ==
    /\ chan[r].rx = "alive"
    /\ chan[r].tx = "alive"
    /\ queue' = SelectSeq(queue, LAMBDA m : m.respond_to # r)
    /\ chan' = [chan EXCEPT ![r].rx = "dropped",
                            ![r].tx = IF queue' # queue THEN "dropped" ELSE @]
    /\ UNCHANGED <<config, senders, script, delivered, order, workerVars>>

\* The caller drops the pending future (a timeout, as in tests::pool,
\* runtime.rs 688-691): the Receiver of the reply channel is dropped.
DropFuture(r) ==
    /\ chan[r].rx = "alive"
    /\ chan[r].tx = "alive"
    /\ chan' = [chan EXCEPT ![r].rx = "dropped"]
    /\ UNCHANGED <<config, senders, queue, script, delivered, order, workerVars>>

\* The host drops its Runtime handle (runtime.rs 109-112): the Sender goes.
DropRuntime ==
    /\ senders > 0
    /\ senders' = senders - 1
    /\ UNCHANGED <<config, queue, script, chan, delivered, order, workerVars>>

\* spawn_worker, bootstrap succeeded (runtime.rs 137-142)
BootOk(w) ==
    /\ pc[w] = "boot"
    /\ LET i == init(functions, JS_SRC_DIR)
       IN /\ i.ok
          /\ globals' = [globals EXCEPT ![ContextOf(w)] =
                            [i.globals EXCEPT !.users = globals[ContextOf(w)].users \cup {w}]]
          /\ console' = [console EXCEPT ![SinkOf(w)] = i.output]
          /\ compiled_fns' = [compiled_fns EXCEPT ![w] = i.compiled_fns]
    /\ pc' = [pc EXCEPT ![w] = "recv"]
    /\ UNCHANGED <<config, senders, queue, script, chan, delivered, order, cur, prog, ip, failed,
                   received, replied>>

\* BootFail as it would be if the panic took the process down with it
\* (panic = "abort"): every thread ends and every Sender held is dropped.
BootFailAborts(w) ==
    /\ pc[w] = "boot"
    /\ pc' = [v \in Workers |-> IF pc[v] = "none" THEN "none" ELSE "dead"]
    /\ queue' = <<>>
    /\ chan' = [r \in Reqs |-> IF chan[r].tx = "alive" THEN [chan[r] EXCEPT !.tx = "dropped"] ELSE chan[r]]
    /\ UNCHANGED <<config, senders, script, delivered, order, cur, prog, ip, failed, globals,
                   console, compiled_fns, received, replied>>

\* BootFail as it would be if a Receiver outlived the workers (kept in the
\* Runtime handle, say): the channel never disconnects and keeps its messages.
BootFailKeepsQueue(w) ==
    /\ pc[w] = "boot"
    /\ pc' = [pc EXCEPT ![w] = "dead"]
    /\ UNCHANGED <<config, senders, queue, chan, script, delivered, order, cur, prog, ip, failed,
                   globals, console, compiled_fns, received, replied>>

\* spawn_worker, bootstrap failed (runtime.rs 140-142): context::init
\* returned Err, because of the configuration or because the engine could not
\* build the context, and expect panics.  The thread unwinds and drops its
\* Receiver; when it was the last one the channel discards what is queued.
BootFail(w) ==
    /\ pc[w] = "boot"
    /\ pc' = [pc EXCEPT ![w] = "dead"]
    /\ IF Receivers = {w}
       THEN /\ queue' = <<>>
            /\ chan' = DropMessages(queue, chan)
       ELSE UNCHANGED <<queue, chan>>
    /\ UNCHANGED <<config, senders, script, delivered, order, cur, prog, ip, failed, globals,
                   console, compiled_fns, received, replied>>

\* recv as it would be if the channel were a broadcast: the message handed
\* out stays in the channel for the other receivers
recv_peek(q) == [msg |-> Head(q), rest |-> q]

\* recv as it would be if the channel handed out the newest message first
recv_newest(q) == [msg |-> q[Len(q)], rest |-> SubSeq(q, 1, Len(q) - 1)]

\* crossbeam channel::unbounded (runtime.rs 120) is a FIFO queue: recv
\* (runtime.rs 144) takes the oldest message
recv(q) == [msg |-> Head(q), rest |-> Tail(q)]

\* CanRecv as it would be if the workers shared the Receiver behind a lock
\* held for the whole loop body: one evaluation at a time in the pool.
CanRecvUnderLock(w) ==
    /\ pc[w] = "recv"
    /\ queue # <<>>
    /\ \A v \in Workers : pc[v] \notin {"busy", "loop"}

\* CanRecv as it would be if the loop body ran as a task of its own and the
\* thread went back to recv before the evaluation ended
CanRecvWhileBusy(w) ==
    /\ pc[w] \in {"recv", "busy"}
    /\ queue # <<>>

\* CanRecv as it would be if the thread started its receive loop before
\* context::init returned
CanRecvInBoot(w) ==
    /\ pc[w] \in {"boot", "recv"}
    /\ queue # <<>>

\* receiver.recv() of a worker's own clone of the Receiver returns a message
\* (runtime.rs 125, 144): the thread is blocked in recv and the channel is
\* not empty
CanRecv(w) ==
    /\ pc[w] = "recv"
    /\ queue # <<>>

\* receiver.recv() returned a message (runtime.rs 144-152): prepare_script,
\* then the part of context::eval before the first statement runs
\* (runtime.rs 423-434): fresh console, args bound, source parsed.
Recv(w) ==
    /\ CanRecv(w)
    /\ LET msg == recv(queue).msg
           source == prepare_script(msg.script, compiled_fns[w])
           p == Program(source.code)
       IN /\ cur' = [cur EXCEPT ![w] = msg]
          /\ received' = [received EXCEPT ![w] = Append(@, msg.id)]
          /\ IF ~source.ok
             THEN /\ failed' = [failed EXCEPT ![w] = Err("Unexpected", source.msg, msg.id)]
                  /\ UNCHANGED <<console, globals, prog, ip>>
             ELSE /\ console' = [console EXCEPT ![SinkOf(w)] = set_console(@)]
                  /\ globals' = [globals EXCEPT ![ContextOf(w)] =
                                    [eval_context(@) EXCEPT !.args = bind_args(@, source.args),
                                                            !.users = @ \cup {w}]]
                  /\ IF p.ok
                     THEN /\ prog' = [prog EXCEPT ![w] = p]
                          /\ ip' = [ip EXCEPT ![w] = 1]
                          /\ UNCHANGED failed
                     ELSE /\ failed' = [failed EXCEPT ![w] = Err("Execution", <<"SyntaxError">>, msg.id)]
                          /\ UNCHANGED <<prog, ip>>
    /\ compiled_fns' = [compiled_fns EXCEPT ![w] = fns_after_prepare(recv(queue).msg.script, @)]
    /\ queue' = recv(queue).rest
    /\ pc' = [pc EXCEPT ![w] = "busy"]
    /\ UNCHANGED <<config, senders, script, chan, delivered, order, replied>>

\* Spin as it would be if the context had an interrupt handler bounding the
\* execution: the loop is broken off with an exception.
SpinInterrupted(w) ==
    /\ failed' = [failed EXCEPT ![w] = Err("Execution", <<"interrupted">>, cur[w].id)]
    /\ UNCHANGED <<pc, globals, console, ip>>

\* The engine enters while (true) {}: the context is built without an
\* interrupt handler or limits (runtime.rs 280), so context.eval
\* (runtime.rs 434) never returns and the thread stays in the loop.
Spin(w) ==
    /\ pc' = [pc EXCEPT ![w] = "loop"]
    /\ UNCHANGED <<globals, console, failed, ip>>

\* The engine runs the next statement of the script (runtime.rs 434-435).
\* A console call reaches ConsoleBackend::log of the installed Console; an
\* uncaught exception ends the evaluation with Execution; while (true) {}
\* never returns.
Step(w) ==
    /\ pc[w] = "busy"
    /\ failed[w].tag = "None"
    /\ ip[w] <= Len(prog[w].stmts)
    /\ LET stmt == prog[w].stmts[ip[w]]
           r == ExecStmt(stmt, globals[ContextOf(w)], console[SinkOf(w)], cur[w].id)
       IN IF stmt.op = "loop"
          THEN Spin(w)
          ELSE /\ globals' = [globals EXCEPT ![ContextOf(w)] = [r.globals EXCEPT !.users = @ \cup {w}]]
               /\ console' = [console EXCEPT ![SinkOf(w)] = r.output]
               /\ failed' = [failed EXCEPT ![w] =
                                IF r.thrown THEN Err("Execution", <<"Exception">>, cur[w].id) ELSE @]
               /\ ip' = [ip EXCEPT ![w] = @ + 1]
               /\ UNCHANGED pc
    /\ UNCHANGED <<config, senders, queue, script, chan, delivered, order, cur, prog, compiled_fns,
                   received, replied>>

\* EvalResult as it would be if the error value carried the text logged
\* before the failure
EvalResultWithLog(w) ==
    LET v == ValueOf(prog[w], globals[ContextOf(w)])
        text == ConsoleText(console[SinkOf(w)])
    IN IF failed[w].tag = "Err" THEN [failed[w] EXCEPT !.console_output = text]
       ELSE IF ~v.ok THEN [Err("Execution", <<"Exception">>, cur[w].id) EXCEPT !.console_output = text]
       ELSE Ok(v.out, text, ConsoleBy(console[SinkOf(w)]), cur[w].id)

\* The Result context::eval returns once the statements are done
\* (runtime.rs 433-446): the stringified value with the text of the buffer.
EvalResult(w) ==
    LET v == ValueOf(prog[w], globals[ContextOf(w)])
    IN IF failed[w].tag = "Err" THEN failed[w]
       ELSE IF ~v.ok THEN Err("Execution", <<"Exception">>, cur[w].id)
       ELSE Ok(v.out, ConsoleText(console[SinkOf(w)]), ConsoleBy(console[SinkOf(w)]), cur[w].id)

\* AfterSend as it would be if an Err result ended the loop (a break, or an
\* unwrap of the result inside the thread)
AfterSendStopOnErr(msg) == IF msg.tag = "Err" THEN "dead" ELSE "recv"

\* Where the thread goes after respond_to.send(msg) (runtime.rs 144-159):
\* the match arm ends and the while let loop calls recv again, whatever msg
AfterSend(msg) == "recv"

\* Reply as it would be if the Err arm of the match (runtime.rs 153) went on
\* to the next message without sending: the Sender is dropped unused.
ReplyOnlyOk(w) ==
    /\ pc[w] = "busy"
    /\ failed[w].tag = "Err" \/ ip[w] > Len(prog[w].stmts)
    /\ LET r == cur[w].respond_to
           msg == EvalResult(w)
       IN IF chan[r].rx = "alive" /\ msg.tag = "Ok"
          THEN /\ chan' = [chan EXCEPT ![r].tx = "sent", ![r].value = msg]
               /\ delivered' = [delivered EXCEPT ![r] = Append(@, msg)]
               /\ order' = Append(order, r)
          ELSE /\ chan' = [chan EXCEPT ![r].tx = "dropped"]
               /\ UNCHANGED <<delivered, order>>
    /\ replied' = [replied EXCEPT ![w] = Append(@, cur[w].id)]
    /\ pc' = [pc EXCEPT ![w] = AfterSend(EvalResult(w))]
    /\ cur' = [cur EXCEPT ![w] = NoMessage]
    /\ prog' = [prog EXCEPT ![w] = NoProg]
    /\ ip' = [ip EXCEPT ![w] = 0]
    /\ failed' = [failed EXCEPT ![w] = NoResult]
    /\ UNCHANGED <<config, senders, queue, script, globals, console, compiled_fns, received>>

\* _ = respond_to.send(msg) (runtime.rs 156): the value is stored when the
\* Receiver is alive and discarded otherwise; the worker loops to recv.
Reply(w) ==
    /\ pc[w] = "busy"
    /\ failed[w].tag = "Err" \/ ip[w] > Len(prog[w].stmts)
    /\ LET r == cur[w].respond_to
           msg == EvalResult(w)
       IN IF chan[r].rx = "alive"
          THEN /\ chan' = [chan EXCEPT ![r].tx = "sent", ![r].value = msg]
               /\ delivered' = [delivered EXCEPT ![r] = Append(@, msg)]
               /\ order' = Append(order, r)
          ELSE /\ chan' = [chan EXCEPT ![r].tx = "dropped"]
               /\ UNCHANGED <<delivered, order>>
    /\ replied' = [replied EXCEPT ![w] = Append(@, cur[w].id)]
    /\ pc' = [pc EXCEPT ![w] = AfterSend(EvalResult(w))]
    /\ cur' = [cur EXCEPT ![w] = NoMessage]
    /\ prog' = [prog EXCEPT ![w] = NoProg]
    /\ ip' = [ip EXCEPT ![w] = 0]
    /\ failed' = [failed EXCEPT ![w] = NoResult]
    /\ UNCHANGED <<config, senders, queue, script, globals, console, compiled_fns, received>>

\* Exit as it would be if recv gave up on an empty channel (try_recv): the
\* loop ends as soon as nothing is queued, whoever still holds a Sender.
ExitWhenIdle(w) ==
    /\ pc[w] = "recv"
    /\ queue = <<>>
    /\ pc' = [pc EXCEPT ![w] = "exit"]
    /\ UNCHANGED <<config, senders, queue, script, chan, delivered, order, cur, prog, ip, failed,
                   globals, console, compiled_fns, received, replied>>

\* receiver.recv() returned Err (runtime.rs 144): the channel is empty and
\* every Sender is gone; the loop ends and the thread finishes.
Exit(w) ==
    /\ pc[w] = "recv"
    /\ queue = <<>>
    /\ senders = 0
    /\ pc' = [pc EXCEPT ![w] = "exit"]
    /\ UNCHANGED <<config, senders, queue, script, chan, delivered, order, cur, prog, ip, failed,
                   globals, console, compiled_fns, received, replied>>

\* ----------------------------------------------------- the pool under load
\* The scripts the host submits to the pool: inline code that logs and
\* returns, throws, does not parse, or never returns.
PoolScripts == {ScriptFunction(None, <<c>>) : c \in {"log", "throw", "syntax", "loop"}}

Init == \E n \in 0..MaxWorkers : InitWith(n, NoFunctions, NoDir)

SubmitPool == \E r \in Reqs : \E s \in PoolScripts : Submit(r, s)
DropFutureAny == \E r \in Reqs : DropFuture(r)
BootOkAny == \E w \in Workers : BootOk(w)
BootFailAny == \E w \in Workers : BootFail(w)
RecvAny == \E w \in Workers : Recv(w)
StepAny == \E w \in Workers : Step(w)
ReplyAny == \E w \in Workers : Reply(w)
ExitAny == \E w \in Workers : Exit(w)

WorkerNext(w) == BootOk(w) \/ BootFail(w) \/ Recv(w) \/ Step(w) \/ Reply(w) \/ Exit(w)

Next ==
    \/ SubmitPool
    \/ DropFutureAny
    \/ DropRuntime
    \/ BootOkAny
    \/ BootFailAny
    \/ RecvAny
    \/ StepAny
    \/ ReplyAny
    \/ ExitAny

Spec == Init /\ [][Next]_vars

\* Worker threads are scheduled fairly by the operating system: a thread
\* that can take its next step eventually takes it.
FairSpec == Spec /\ \A w \in Workers : WF_vars(WorkerNext(w))

\* ------------------------------------------------------------- properties
Range(f) == {f[i] : i \in DOMAIN f}

\* the code text a request makes the worker evaluate
SourceOf(s) ==
    IF s.variant = "Function" THEN s.code
    ELSE IF s.variant = "RenderPage" THEN PageCode(s.name)
    ELSE IF \E i \in 1..Len(functions) : functions[i].name = s.name
         THEN CompileEntry(s.name, functions[CHOOSE i \in 1..Len(functions) : functions[i].name = s.name].code).handle
         ELSE <<>>

\* the script of a request never returns
Loops(s) == \E i \in 1..Len(Program(SourceOf(s)).stmts) : Program(SourceOf(s)).stmts[i].op = "loop"

\* request r was accepted by the channel and has not been answered
Outstanding(r) == chan[r].tx = "alive"

\* some worker died or is stuck in a script that never returns
Unhealthy == \E w \in Workers : pc[w] \in {"dead", "loop"}

\* C1: every request submitted to a runtime whose workers are alive and whose
\* scripts terminate gets exactly one response on its reply channel: at most
\* one result is ever delivered on a channel, it is the result computed for
\* that request, and (under fair scheduling) an outstanding request whose
\* caller keeps waiting is eventually answered unless a worker died or is
\* stuck in a non-terminating script.
C1_ExactlyOneResponse ==
    /\ [](\A r \in Reqs : /\ Len(delivered[r]) <= 1
                          /\ \A i \in 1..Len(delivered[r]) : delivered[r][i].of = r)
    /\ \A r \in Reqs :
          Outstanding(r) ~> (Len(delivered[r]) = 1 \/ chan[r].rx = "dropped" \/ Unhealthy)

\* every request of a healthy pool has been answered, one of them by an error
C1_Witness ==
    /\ ~Unhealthy
    /\ \A r \in Reqs : Len(delivered[r]) = 1 /\ delivered[r][1].of = r
    /\ \E r \in Reqs : delivered[r][1].tag = "Err"

\* no worker thread is left: every one spawned has died or finished
NoLiveWorker == \A w \in Workers : pc[w] \in {"none", "dead", "exit"}

\* C2: when the worker holding a request has died, or no live worker remains
\* to receive a queued request, the future of a caller that is still waiting
\* is not pending: the reply channel is closed and, unless a result had been
\* sent before, the caller observes the terminal error Unexpected.
C2_DeadWorkersCloseChannel ==
    \A r \in Reqs :
        /\ chan[r].rx = "alive"
        /\ NoLiveWorker \/ \E w \in Workers : pc[w] = "dead" /\ cur[w].id = r
        => /\ chan[r].tx \in {"sent", "dropped"}
           /\ FutureValue(r).tag # "None"
           /\ delivered[r] = <<>> => FutureValue(r) = Err("Unexpected", <<"channel closed">>, r)

\* a request the channel had accepted was discarded when the last worker died
\* during bootstrap, and its caller observes Unexpected
C2_Witness ==
    /\ workers > 0
    /\ \A w \in Workers : pc[w] \in {"none", "dead"}
    /\ \E r \in Reqs : /\ chan[r].enq
                       /\ chan[r].rx = "alive"
                       /\ chan[r].tx = "dropped"
                       /\ FutureValue(r).error = "Unexpected"

\* the worker threads that have not died (spawned, and not panicked)
NotDead == {w \in Workers : pc[w] \notin {"none", "dead"}}

\* the requests accepted by the channel whose script never returns
LoopsSubmitted == {r \in Reqs : chan[r].enq /\ Loops(script[r])}

\* r was received by a worker that had not received a non-terminating script
ReceivedByFreeWorker(r) ==
    \E w \in Workers : \E i \in 1..Len(received[w]) :
        /\ received[w][i] = r
        /\ \A j \in 1..(i - 1) : ~Loops(script[received[w][j]])

\* C3: worker isolation.  Under fair scheduling, an outstanding request with a
\* terminating script is eventually received by a worker that is not stuck
\* and its result is delivered, as long as its caller keeps waiting and fewer
\* non-terminating scripts were submitted than there are workers that did
\* not die (workers = 2 with one infinite loop submitted first included).
C3_WorkerIsolation ==
    \A r \in Reqs :
        (Outstanding(r) /\ ~Loops(script[r]))
            ~> \/ Len(delivered[r]) = 1 /\ ReceivedByFreeWorker(r)
               \/ chan[r].rx = "dropped"
               \/ Cardinality(LoopsSubmitted) >= Cardinality(NotDead)

\* tests::pool: two workers, the first request loops forever on one of them,
\* the second was received by the other and its result delivered
C3_Witness ==
    /\ workers = 2
    /\ \E w1, w2 \in Workers :
          /\ w1 # w2
          /\ pc[w1] = "loop" /\ cur[w1].id = 1
          /\ 2 \in Range(received[w2])
          /\ Len(delivered[2]) = 1 /\ delivered[2][1].tag = "Ok"

\* worker w is evaluating a script that never returns
Stuck(w) == pc[w] \in {"busy", "loop"} /\ Loops(cur[w].script)

\* C4: a non-terminating script blocks its worker for good.  From the step
\* that starts its evaluation on, the worker stays in that evaluation: it
\* receives no other message and sends no reply, the reply channel of the
\* request stays open without a value, so the future stays pending; and no
\* step spawns a worker or revives a dead one to take its place.
C4_LoopBlocksWorker ==
    [][\A w \in Workers :
          /\ Stuck(w) => /\ Stuck(w)'
                         /\ cur'[w] = cur[w]
                         /\ received'[w] = received[w]
                         /\ replied'[w] = replied[w]
                         /\ chan'[cur[w].id].tx = "alive"
                         /\ chan'[cur[w].id].value = NoResult
                         /\ delivered'[cur[w].id] = <<>>
          /\ pc[w] \in {"none", "dead", "exit"} => pc'[w] = pc[w]
          /\ workers' = workers]_vars

\* a worker is inside the infinite loop while a message waits in the channel
\* and the future of the looping request is pending
C4_Witness ==
    \E w \in Workers :
        /\ pc[w] = "loop"
        /\ queue # <<>>
        /\ chan[cur[w].id].rx = "alive"
        /\ FutureValue(cur[w].id) = NoResult

\* the text of one console line: the values separated by ", " and a newline
ExpectedLine(vals) ==
    [i \in 1..(2 * Len(vals)) |->
        IF i = 2 * Len(vals) THEN "\n" ELSE IF i % 2 = 1 THEN vals[(i + 1) \div 2] ELSE ", "]

RECURSIVE ExpectedLines(_)
\* the lines a statement list logs when it runs to its end, in call order
ExpectedLines(stmts) ==
    IF Len(stmts) = 0 THEN <<>>
    ELSE (IF stmts[1].op = "log" THEN ExpectedLine(stmts[1].vals) ELSE <<>>)
            \o ExpectedLines(Tail(stmts))

\* C5: the console_output of every successful response is exactly the lines
\* logged by that request's own evaluation, each ended by a newline, in call
\* order; nothing an earlier evaluation on the same worker logged is in it.
C5_ConsolePerEval ==
    \A r \in Reqs : \A i \in 1..Len(delivered[r]) :
        delivered[r][i].tag = "Ok" =>
            delivered[r][i].console_output = ExpectedLines(Program(SourceOf(script[r])).stmts)

\* one worker evaluated a request that logged and afterwards a request that
\* logged two lines and succeeded (tests::sum)
C5_Witness ==
    \E w \in Workers : \E i, j \in 1..Len(replied[w]) :
        /\ i < j
        /\ \E k \in 1..Len(Program(SourceOf(script[replied[w][i]])).stmts) :
              Program(SourceOf(script[replied[w][i]])).stmts[k].op = "log"
        /\ Len(delivered[replied[w][j]]) = 1
        /\ delivered[replied[w][j]][1].tag = "Ok"
        /\ delivered[replied[w][j]][1].console_output = <<"hello", ", ", "world", "\n", "!", "\n">>

\* C6: the console_output of a successful response holds no line logged by
\* the evaluation of another request, whatever the interleaving of the
\* console calls of workers evaluating at the same time.
C6_ConsoleIsolation ==
    \A r \in Reqs : \A i \in 1..Len(delivered[r]) :
        delivered[r][i].tag = "Ok" =>
            \A k \in 1..Len(delivered[r][i].lines_by) : delivered[r][i].lines_by[k] = r

\* a request was evaluated, logged and answered on one worker during the
\* evaluation of an earlier request that logged on another worker and has
\* not ended
C6_Witness ==
    \E w1, w2 \in Workers : \E r \in Reqs :
        /\ w1 # w2
        /\ pc[w2] \in {"busy", "loop"}
        /\ cur[w2].id < r
        /\ Len(console[SinkOf(w2)]) > 0
        /\ r \in Range(replied[w1])
        /\ Len(delivered[r]) = 1
        /\ delivered[r][1].tag = "Ok"
        /\ Len(delivered[r][1].lines_by) = 2

\* C7: a worker processes its messages one at a time and in receipt order:
\* the ids it has called send for (delivered or discarded) are a prefix of
\* the ids it received, all of them but the message it is evaluating, which
\* is the last one received.
C7_OneAtATimeInOrder ==
    \A w \in Workers :
        /\ Len(replied[w]) <= Len(received[w])
        /\ \A i \in 1..Len(replied[w]) : replied[w][i] = received[w][i]
        /\ IF pc[w] \in {"busy", "loop"}
           THEN /\ Len(received[w]) = Len(replied[w]) + 1
                /\ cur[w].id = received[w][Len(received[w])]
           ELSE /\ Len(received[w]) = Len(replied[w])
                /\ cur[w] = NoMessage

\* a worker has received and answered two messages and is evaluating no other
C7_Witness ==
    \E w \in Workers :
        /\ Len(replied[w]) >= 2
        /\ replied[w] = received[w]
        /\ \A i \in 1..Len(replied[w]) : chan[replied[w][i]].tx \in {"sent", "dropped"}

\* r1 and r2 were received by two different workers
ReceivedByDifferentWorkers(r1, r2) ==
    \E w1, w2 \in Workers :
        w1 # w2 /\ r1 \in Range(received[w1]) /\ r2 \in Range(received[w2])

\* C8: completion order across workers is not FIFO.  Whenever the result of
\* a later request is delivered before the result of an earlier one, the two
\* were received by different workers; that such an execution exists is what
\* C8_Witness states.
C8_OutOfOrderAcrossWorkers ==
    \A i, j \in 1..Len(order) :
        i < j /\ order[i] > order[j] => ReceivedByDifferentWorkers(order[j], order[i])

\* two requests submitted one after the other were received by different
\* workers and the result of the later one was delivered first
C8_Witness ==
    \E i, j \in 1..Len(order) :
        /\ i < j
        /\ order[i] = order[j] + 1
        /\ ReceivedByDifferentWorkers(order[j], order[i])

\* the caller of r dropped its future
Cancelled(r) == chan[r].rx = "dropped"

InQueue(r) == \E i \in 1..Len(queue) : queue[i].respond_to = r

\* worker w ran the script of its message to the end, to its uncaught
\* exception or to its syntax error
RanToCompletion(w) ==
    LET p == Program(SourceOf(cur[w].script))
    IN IF ~p.ok THEN failed[w].error = "Execution"
       ELSE /\ prog[w] = p
            /\ \/ ip[w] = Len(p.stmts) + 1
               \/ ip[w] > 1 /\ p.stmts[ip[w] - 1].op = "throw"

\* C9: there is no cancellation.  A request whose future was dropped stays
\* in the channel until a worker receives it (or the last worker dies); the
\* worker that holds it sends only after the script has run to completion,
\* the send fails, nothing is delivered, and the worker is back in recv; and
\* under fair scheduling such a request is received and processed unless a
\* worker died or is stuck.
C9_NoCancellation ==
    /\ [][\A r \in Reqs :
            Cancelled(r)' /\ InQueue(r) =>
                InQueue(r)' \/ (\E w \in Workers : cur'[w].id = r) \/ NoLiveWorker']_vars
    /\ [][\A w \in Workers :
            pc[w] = "busy" /\ Cancelled(cur[w].id) /\ cur'[w] # cur[w] =>
                /\ RanToCompletion(w)
                /\ delivered' = delivered
                /\ chan'[cur[w].id].tx = "dropped"
                /\ replied'[w] = Append(replied[w], cur[w].id)
                /\ pc'[w] = "recv"]_vars
    /\ \A r \in Reqs :
          (Cancelled(r) /\ Outstanding(r))
              ~> ((\E w \in Workers : r \in Range(replied[w])) \/ Unhealthy)

\* a worker received a request whose future had been dropped, evaluated it,
\* failed to send, delivered nothing, and has received its next message
C9_Witness ==
    \E w \in Workers :
        /\ Len(received[w]) >= 2
        /\ Cancelled(received[w][1])
        /\ chan[received[w][1]].enq
        /\ chan[received[w][1]].tx = "dropped"
        /\ replied[w][1] = received[w][1]
        /\ delivered[received[w][1]] = <<>>

\* the script of s ends in a user-script error: it does not parse, or it
\* throws before it could loop
ScriptFails(s) ==
    LET p == Program(SourceOf(s))
    IN \/ ~p.ok
       \/ \E k \in 1..Len(p.stmts) :
             p.stmts[k].op = "throw" /\ \A j \in 1..(k - 1) : p.stmts[j].op # "loop"

\* worker w has answered a request whose script failed
HasAnsweredError(w) == \E i \in 1..Len(replied[w]) : ScriptFails(script[replied[w][i]])

\* C10: a user-script error (exception or syntax error) reaches the caller as
\* an Execution error on the reply channel, and the worker stays in its
\* loop: the step that answers the error leaves the thread in recv, and
\* under fair scheduling a worker that has answered an error still takes
\* messages from a non-empty channel and answers every terminating request
\* it receives.
C10_ScriptErrorKeepsWorker ==
    /\ [](\A r \in Reqs : \A i \in 1..Len(delivered[r]) :
            ScriptFails(script[r]) =>
                delivered[r][i].tag = "Err" /\ delivered[r][i].error = "Execution")
    /\ [][\A w \in Workers :
            pc[w] = "busy" /\ ScriptFails(cur[w].script) => pc'[w] \in {"busy", "recv"}]_vars
    /\ \A w \in Workers :
          /\ (HasAnsweredError(w) /\ pc[w] = "recv" /\ queue # <<>>)
                ~> (queue = <<>> \/ pc[w] = "busy")
          /\ (HasAnsweredError(w) /\ pc[w] = "busy" /\ ~Loops(cur[w].script))
                ~> (pc[w] = "recv" /\ replied[w] = received[w])

\* a worker answered a failing script with Execution and afterwards received
\* and answered another request
C10_Witness ==
    \E w \in Workers :
        /\ Len(replied[w]) >= 2
        /\ ScriptFails(script[replied[w][1]])
        /\ Len(delivered[replied[w][1]]) = 1
        /\ delivered[replied[w][1]][1].error = "Execution"
        /\ Len(delivered[replied[w][2]]) = 1

\* ------------------------------------------- the pool with named functions
\* spawn_worker, context::init returned Err for this configuration
\* (runtime.rs 140-142, 296-325): a module or an entry of functions failed
BootErr(w) ==
    /\ ~init(functions, JS_SRC_DIR).ok
    /\ BootFail(w)

\* RuntimeConfig.functions of tests::compile and tests::compile_ts
\* (runtime.rs 570-573, 588-601), with a function that keeps a counter
GoodFunctions ==
    <<[name |-> <<"sum", ".js">>, code |-> <<"sum">>],
      [name |-> <<"count", ".js">>, code |-> <<"count">>],
      [name |-> <<"sum", ".ts">>, code |-> <<"sum_ts">>]>>

\* a map with an entry that does not compile, and one with an entry that
\* does not transpile
BadJsFunctions ==
    <<[name |-> <<"sum", ".js">>, code |-> <<"sum">>],
      [name |-> <<"bad", ".js">>, code |-> <<"syntax">>]>>
BadTsFunctions == <<[name |-> <<"bad", ".ts">>, code |-> <<"bad_ts">>]>>

FunctionMaps == {GoodFunctions, BadJsFunctions, BadTsFunctions}

\* The requests the host submits: named functions, known and unknown, an
\* inline script and a page
NamedScripts ==
    {ScriptCompiledFunction(SomeArg, <<"sum", ".js">>),
     ScriptCompiledFunction(None, <<"sum", ".ts">>),
     ScriptCompiledFunction(None, <<"count", ".js">>),
     ScriptCompiledFunction(None, <<"missing", ".js">>),
     ScriptFunction(None, <<"log">>),
     ScriptRenderPage(None, <<"about">>)}

NamedInit == \E n \in 0..MaxWorkers : \E fns \in FunctionMaps : InitWith(n, fns, NoDir)

SubmitNamed == \E r \in Reqs : \E s \in NamedScripts : Submit(r, s)
BootErrAny == \E w \in Workers : BootErr(w)

NamedNext ==
    \/ SubmitNamed
    \/ DropFutureAny
    \/ DropRuntime
    \/ BootOkAny
    \/ BootErrAny
    \/ RecvAny
    \/ StepAny
    \/ ReplyAny
    \/ ExitAny

NamedSpec == NamedInit /\ [][NamedNext]_vars

\* s is a Named request
IsNamed(s) == s.variant = "CompiledFunction"

\* the message of the error prepare_script builds for an unknown name
NotFoundMsg(name) == <<"function ">> \o name \o <<" not found">>

PagesDir == Dir(<<[path |-> "pages/index.js", text |-> <<"pages">>],
                  [path |-> "pages/home.jsx", text |-> <<"home_jsx">>]>>)
LibDir == Dir(<<[path |-> "lib.js", text |-> <<"setg">>]>>)
BrokenPagesDir == Dir(<<[path |-> "pages/index.js", text |-> <<"throw">>]>>)

SourceTrees == {NoDir, PagesDir, LibDir, BrokenPagesDir}

\* The requests the host submits: a registered page, an unregistered one,
\* and inline scripts that write and read a global
PageScripts ==
    {ScriptRenderPage(SomeArg, <<"home">>),
     ScriptRenderPage(None, <<"about">>),
     ScriptFunction(SomeArg, <<"setg">>),
     ScriptFunction(None, <<"readg">>)}

PageInit == \E n \in 0..MaxWorkers : \E dir \in SourceTrees : InitWith(n, NoFunctions, dir)

SubmitPage == \E r \in Reqs : \E s \in PageScripts : Submit(r, s)

PageNext ==
    \/ SubmitPage
    \/ DropFutureAny
    \/ DropRuntime
    \/ BootOkAny
    \/ BootErrAny
    \/ RecvAny
    \/ StepAny
    \/ ReplyAny
    \/ ExitAny

PageSpec == PageInit /\ [][PageNext]_vars

\* s is a Page request
IsPage(s) == s.variant = "RenderPage"

\* the page-not-found string for a page name
PageNotFound(name) == <<"Page \"">> \o name \o <<"\" not found">>

\* the page registry of the context worker w evaluates in
Registry(w) == globals[ContextOf(w)].Pages

\* C12: a Page request naming a page that is absent from the registry of the
\* worker that answered it (a registry that was never populated included) is
\* answered with a success whose output is the page-not-found string for
\* that name, never with an error.
C12_AbsentPageIsSuccess ==
    \A w \in Workers : \A r \in Range(replied[w]) : \A i \in 1..Len(delivered[r]) :
        IsPage(script[r]) /\ script[r].name[1] \notin Registry(w)
            => /\ delivered[r][i].tag = "Ok"
               /\ delivered[r][i].output = PageNotFound(script[r].name)

\* the page module of the committed source tree is there and fails when run
PageStepFails ==
    /\ JS_SRC_DIR.set
    /\ Contains(JS_SRC_DIR, "pages/index.js")
    /\ run_module(JS_SRC_DIR, "pages/index.js", NewGlobals, ConsoleNew).thrown

\* C13: a failure of the page step during bootstrap is non-fatal: no worker
\* dies of it (the functions map is empty here, so nothing else fails).
C13_PageFailureNonFatal ==
    \A w \in Workers : PageStepFails => pc[w] # "dead"

\* an entry of the configured functions map fails to transpile or compile
FunctionsFail == \E i \in 1..Len(functions) : ~CompileEntry(functions[i].name, functions[i].code).ok

\* C14: a failure while transpiling or compiling an entry of the functions
\* map is fatal for the worker.  With such a map no worker ever leaves
\* bootstrap but by dying, none receives a message, a worker in bootstrap
\* can die and cannot enter the receive loop; and a dead worker stays dead
\* while the number of workers never changes (no restart, no retry).
C14_FunctionFailureFatal ==
    /\ [](FunctionsFail =>
            \A w \in Workers :
                /\ pc[w] \in {"none", "boot", "dead"}
                /\ received[w] = <<>>
                /\ pc[w] = "boot" => ENABLED BootErr(w) /\ ~ENABLED BootOk(w))
    /\ [][/\ \A w \in Workers : pc[w] = "dead" => pc'[w] = "dead"
          /\ workers' = workers]_vars

\* both workers of a runtime whose map has a bad entry have died, and a
\* request the channel had accepted was never received by either
C14_Witness ==
    /\ FunctionsFail
    /\ workers = 2
    /\ \A w \in Workers : pc[w] \in {"none", "dead"} /\ received[w] = <<>>
    /\ \E r \in Reqs : chan[r].enq /\ chan[r].tx = "dropped"

\* some worker thread has panicked
SomeDead == \E w \in Workers : pc[w] = "dead"

\* C15: a panic inside one worker terminates only that worker.  The step in
\* which a worker dies leaves every other thread where it was, with its
\* message, context and table, and leaves the channel alone unless the dying
\* worker held the last Receiver; and under fair scheduling, once a worker
\* has died, an outstanding request with a terminating script is still
\* answered while its caller waits, as long as the workers that did not die
\* outnumber the non-terminating scripts submitted.
C15_PanicKillsOneWorker ==
    /\ [][\A w \in Workers :
            pc[w] # "dead" /\ pc'[w] = "dead" =>
                /\ \A v \in Workers \ {w} :
                      /\ pc'[v] = pc[v]
                      /\ cur'[v] = cur[v]
                      /\ globals'[ContextOf(v)] = globals[ContextOf(v)]
                      /\ compiled_fns'[v] = compiled_fns[v]
                /\ Receivers # {w} => queue' = queue /\ chan' = chan]_vars
    /\ \A r \in Reqs :
          (SomeDead /\ Outstanding(r) /\ ~Loops(script[r]))
              ~> \/ Len(delivered[r]) = 1
                 \/ chan[r].rx = "dropped"
                 \/ Cardinality(LoopsSubmitted) >= Cardinality(NotDead)

\* one worker panicked without having received anything and the other has
\* received and answered every request
C15_Witness ==
    \E w1, w2 \in Workers :
        /\ pc[w1] = "dead" /\ received[w1] = <<>>
        /\ pc[w2] = "recv"
        /\ \A r \in Reqs : r \in Range(replied[w2]) /\ Len(delivered[r]) = 1

\* worker w has entered its receive loop
InLoop(w) == pc[w] \in {"recv", "busy", "loop", "exit"}

\* C16: the compiled function table of a worker is populated once during
\* bootstrap and is read-only afterwards: in the receive loop it is the
\* table bootstrap built from the configured map, and no step taken once
\* the worker is in the loop (receiving, evaluating or answering a request
\* of any kind, succeeding or failing) adds, removes or replaces an entry.
C16_TableReadOnly ==
    /\ [](\A w \in Workers :
            InLoop(w) => compiled_fns[w] = init(functions, JS_SRC_DIR).compiled_fns)
    /\ [][\A w \in Workers : InLoop(w) => compiled_fns'[w] = compiled_fns[w]]_vars

\* a worker with a populated table has answered two requests of different
\* kinds, one with a success and one with an error
C16_Witness ==
    \E w \in Workers :
        /\ Len(compiled_fns[w]) = 3
        /\ \E r1, r2 \in Range(replied[w]) :
              /\ script[r1].variant # script[r2].variant
              /\ Len(delivered[r1]) = 1 /\ delivered[r1][1].tag = "Ok"
              /\ Len(delivered[r2]) = 1 /\ delivered[r2][1].tag = "Err"

\* C17: every interpreter context is used by one thread only, the worker
\* that built it: the threads that have built, bound globals on, installed a
\* console on or evaluated in a context are at most that one worker, a
\* worker that has entered its loop is the user of its context, and a step
\* that changes a context or a table is a step of a worker thread on its own
\* context and table, never one of the host (submitting, dropping a future
\* or the runtime).
C17_ContextOwnedByOneWorker ==
    /\ [](\A c \in Workers :
            /\ globals[c].users \subseteq {c}
            /\ InLoop(c) => globals[ContextOf(c)].users = {c})
    /\ [][/\ globals' # globals \/ compiled_fns' # compiled_fns =>
                \E w \in Workers :
                    /\ pc[w] \in {"boot", "recv", "busy"}
                    /\ pc'[w] # "dead"
                    /\ \A v \in Workers \ {w} :
                          globals'[v] = globals[v] /\ compiled_fns'[v] = compiled_fns[v]
          /\ \A r \in Reqs : chan'[r].rx # chan[r].rx \/ senders' # senders
                => globals' = globals /\ compiled_fns' = compiled_fns]_vars

\* two workers have each built a context and evaluated a request in it
C17_Witness ==
    \E w1, w2 \in Workers :
        /\ w1 # w2
        /\ globals[w1].users = {w1} /\ globals[w2].users = {w2}
        /\ \E r1 \in Range(replied[w1]) : Len(delivered[r1]) = 1 /\ delivered[r1][1].tag = "Ok"
        /\ \E r2 \in Range(replied[w2]) : Len(delivered[r2]) = 1 /\ delivered[r2][1].tag = "Ok"

\* s is the inline script that writes the global g / that reads it
WritesG(s) == s.variant = "Function" /\ s.code = <<"setg">>
ReadsG(s) == s.variant = "Function" /\ s.code = <<"readg">>

\* the value of g a script sees that worker w evaluates as its k-th message:
\* what the last writing script w received before it stored, or undefined
LastWritten(w, k) ==
    LET S == {j \in 1..(k - 1) : WritesG(script[received[w][j]])}
    IN IF S = {} THEN "undefined"
       ELSE to_js(script[received[w][CHOOSE j \in S : \A i \in S : i <= j]].args)

\* C18: a mutation of global state made by a script on one worker is never
\* observable by a script evaluated on a different worker: the value a
\* reading script returns is the one written by the last writing script the
\* same worker evaluated before it, and undefined when that worker evaluated
\* none, whatever the other workers have written.
C18_GlobalsWorkerLocal ==
    \A w \in Workers : \A k \in 1..Len(received[w]) :
        ReadsG(script[received[w][k]]) =>
            \A i \in 1..Len(delivered[received[w][k]]) :
                delivered[received[w][k]][i] = Ok(<<LastWritten(w, k)>>, <<>>, <<>>, received[w][k])

\* one worker answered a script that wrote g, and afterwards another worker
\* answered a script that read g and saw undefined
C18_Witness ==
    \E w1, w2 \in Workers :
        /\ w1 # w2
        /\ Len(order) = 2
        /\ order[1] \in Range(replied[w1]) /\ WritesG(script[order[1]])
        /\ globals[ContextOf(w1)].g = "7"
        /\ order[2] \in Range(replied[w2]) /\ ReadsG(script[order[2]])
        /\ received[w2] = <<order[2]>>
        /\ delivered[order[2]][1].output = <<"undefined">>

\* ------------------------------------------- further runtime constructions
\* A further Runtime::new(config) in the same process (runtime.rs 115-131):
\* config.js_src is committed to the process-wide JS_SRC_DIR.  The channel
\* and the threads the call creates are objects of the new runtime; the pool
\* followed here stays the one of the first runtime, whose workers read
\* JS_SRC_DIR when they boot.
New(js_src) ==
    /\ Len(supplied) < 1 + MaxNew
    /\ JS_SRC_DIR' = commit(JS_SRC_DIR, js_src)
    /\ supplied' = Append(supplied, js_src)
    /\ UNCHANGED <<workers, functions, call, api, senders, queue, script, chan, delivered, order,
                   workerVars>>

\* the trees a construction may supply (NoDir: none)
OnceTrees == {NoDir, PagesDir, BrokenPagesDir}

OnceInit == \E n \in 0..MaxWorkers : \E dir \in OnceTrees : InitWith(n, NoFunctions, dir)

NewAgain == \E dir \in OnceTrees : New(dir)
\* the requests the host submits: a page and an inline script that logs
OnceScripts == {ScriptRenderPage(SomeArg, <<"home">>), ScriptFunction(None, <<"log">>)}

SubmitOnce == \E r \in Reqs : \E s \in OnceScripts : Submit(r, s)

OnceNext ==
    \/ NewAgain
    \/ SubmitOnce
    \/ BootOkAny
    \/ BootErrAny
    \/ RecvAny
    \/ StepAny
    \/ ReplyAny

OnceSpec == OnceInit /\ [][OnceNext]_vars

\* the tree of the first construction that supplied one, NoDir when none did
FirstSupplied ==
    LET S == {i \in 1..Len(supplied) : supplied[i].set}
    IN IF S = {} THEN NoDir ELSE supplied[CHOOSE i \in S : \A j \in S : i <= j]

\* C19: the process-wide source tree is committed at most once.  After any
\* sequence of runtime constructions it is the tree supplied by the first
\* construction that supplied one (unset when none did); a construction
\* without a tree, or with a tree when one is set, leaves it as it was; and
\* once set it never changes.
C19_CommittedOnce ==
    /\ [](JS_SRC_DIR = FirstSupplied)
    /\ [][/\ JS_SRC_DIR.set => JS_SRC_DIR' = JS_SRC_DIR
          /\ supplied' # supplied /\ ~supplied'[Len(supplied')].set => JS_SRC_DIR' = JS_SRC_DIR]_vars

\* a construction without a tree was followed by two constructions that
\* supplied different trees, and the first of the two is the one committed
C19_Witness ==
    /\ Len(supplied) = 3
    /\ ~supplied[1].set
    /\ supplied[2].set /\ supplied[3].set /\ supplied[2] # supplied[3]
    /\ JS_SRC_DIR = supplied[2]

\* the global the final expression of a code text reads
Reads(code) ==
    LET v == Program(code).value
    IN IF v = "$args" THEN "args" ELSE IF v = "$g" THEN "g" ELSE IF v = "$n" THEN "n"
       ELSE IF v = "$page" THEN "Pages" ELSE ""

\* the globals the statements of a code text write
Writes(code) ==
    {IF op = "setg" THEN "g" ELSE IF op = "incn" THEN "n" ELSE IF op = "setpages" THEN "Pages" ELSE "-" :
        op \in {Program(code).stmts[k].op : k \in 1..Len(Program(code).stmts)}}

\* the i-th and the j-th request worker w answered are Named requests with
\* the same (name, args) pair, and both results were delivered
SamePair(w, i, j) ==
    /\ i < j
    /\ IsNamed(script[replied[w][i]])
    /\ IsNamed(script[replied[w][j]])
    /\ script[replied[w][i]].name = script[replied[w][j]].name
    /\ script[replied[w][i]].args = script[replied[w][j]].args
    /\ delivered[replied[w][i]] # <<>>
    /\ delivered[replied[w][j]] # <<>>

SameOutput(r1, r2) ==
    /\ delivered[r1][1].tag = delivered[r2][1].tag
    /\ delivered[r1][1].output = delivered[r2][1].output

\* C20 as the claim states it: in any sequence of requests processed by one
\* worker, any two Named requests with the same (name, args) pair produce
\* the same output.
C20_SamePairSameOutput ==
    \A w \in Workers : \A i, j \in 1..Len(replied[w]) :
        SamePair(w, i, j) => SameOutput(replied[w][i], replied[w][j])

\* C20, amended: any two Named requests with the same (name, args) pair
\* processed by one worker produce the same output, provided no script the
\* worker evaluated from the first of them up to the second (the function
\* itself included) wrote global state that the function reads.
C20_RepeatableUnlessGlobalsChange ==
    \A w \in Workers : \A i, j \in 1..Len(replied[w]) :
        /\ SamePair(w, i, j)
        /\ \A k \in i..(j - 1) :
              Reads(SourceOf(script[replied[w][i]])) \notin Writes(SourceOf(script[replied[w][k]]))
        => SameOutput(replied[w][i], replied[w][j])

\* one worker answered the same (sum.js, 7) request twice, with 7 both times
C20_Witness ==
    \E w \in Workers :
        /\ Len(replied[w]) = 2
        /\ SamePair(w, 1, 2)
        /\ script[replied[w][1]].name = <<"sum", ".js">>
        /\ delivered[replied[w][1]][1].output = <<"7">>
        /\ delivered[replied[w][2]][1].output = <<"7">>

\* ------------------------------------------------- the resolver on its own
\* the characters names are made of: the dot, the separator and a letter
Chars == {".", "/", "a"}

\* the names of at most n characters
Names(n) == UNION {[1..k -> Chars] : k \in 0..n}

\* The engine is about to resolve an import: `name` written in module `base`.
NormInit ==
    /\ PoolInitWith(0, NoFunctions, NoDir)
    /\ \E b \in Names(MaxBaseLen) : \E n \in Names(MaxNameLen) :
          call = [op |-> "normalize", base |-> b, name |-> n, step |-> 0,
                  out1 |-> <<>>, out2 |-> <<>>]

\* module_normalize(base, name) is called (runtime.rs 364-413)
Resolve1 ==
    /\ call.op = "normalize" /\ call.step = 0
    /\ call' = [call EXCEPT !.step = 1, !.out1 = module_normalize(call.base, call.name)]
    /\ UNCHANGED <<workers, functions, JS_SRC_DIR, supplied, api, senders, queue, script, chan,
                   delivered, order, workerVars>>

\* module_normalize is called again on its own result, with the same base
Resolve2 ==
    /\ call.op = "normalize" /\ call.step = 1
    /\ call' = [call EXCEPT !.step = 2, !.out2 = module_normalize(call.base, call.out1)]
    /\ UNCHANGED <<workers, functions, JS_SRC_DIR, supplied, api, senders, queue, script, chan,
                   delivered, order, workerVars>>

NormNext ==
    \/ Resolve1
    \/ Resolve2

NormSpec == NormInit /\ [][NormNext]_vars

\* a name begins with "./" or with "../"
BeginsRelative(name) ==
    \/ (Len(name) >= 2 /\ name[1] = "." /\ name[2] = "/")
    \/ (Len(name) >= 3 /\ name[1] = "." /\ name[2] = "." /\ name[3] = "/")

\* the pieces of a name between its separators that are not empty
Pieces(name) == SelectSeq(SplitSlash(name), LAMBDA p : p # <<>>)

\* a ".." piece of the name comes after a piece that is not ".."
DotDotAfterNormal(name) ==
    \E i, j \in 1..Len(Pieces(name)) :
        i < j /\ Pieces(name)[i] # <<".", ".">> /\ Pieces(name)[j] = <<".", ".">>

\* C21: the module resolver returns every specifier that does not start with
\* ./ or ../ unchanged, whatever the base module name is.
C21_BareUnchanged ==
    call.op = "normalize" /\ call.step >= 1 /\ ~BeginsRelative(call.name)
        => call.out1 = call.name

\* a specifier with a root and one with a ".." inside were resolved against a
\* base with a directory part, and came back as they were
C21_Witness ==
    /\ call.op = "normalize" /\ call.step >= 1
    /\ call.base = <<"a", "/", "a">>
    /\ call.name \in {<<"/", "a">>, <<"a", "/", ".", ".">>}
    /\ call.out1 = call.name

\* C22: the module resolver is idempotent on its own output: for every base
\* and specifier s whose result is non-relative,
\* normalise(base, normalise(base, s)) equals normalise(base, s).
C22_Idempotent ==
    call.op = "normalize" /\ call.step = 2 /\ ~BeginsRelative(call.out1)
        => call.out2 = call.out1

\* a relative specifier was resolved against a base with a directory part to
\* a name that is not relative, and resolving that name gave it back
C22_Witness ==
    /\ call.op = "normalize" /\ call.step = 2
    /\ call.base = <<"a", "/", "a">>
    /\ call.name = <<".", "/", "a">>
    /\ call.out1 = <<"a", "/", "a">>
    /\ call.out2 = call.out1

\* C23 as the claim states it: for every base and specifier, a ".." component
\* appears in the result only as part of a leading prefix of ".." components,
\* never after a normal component.
C23_NoDotDotAfterNormal ==
    call.op = "normalize" /\ call.step >= 1 => ~DotDotAfterNormal(call.out1)

\* C23, amended: for every base and every specifier that starts with ./ or
\* ../, a ".." component appears in the result only as part of a leading
\* prefix of ".." components, never after a normal component.
C23_RelativeNoDotDotAfterNormal ==
    call.op = "normalize" /\ call.step >= 1 /\ BeginsRelative(call.name)
        => ~DotDotAfterNormal(call.out1)

\* a relative specifier climbed above its base: the ".." that cancelled the
\* base's directory is gone, the one above it leads the result
C23_Witness ==
    /\ call.op = "normalize" /\ call.step >= 1
    /\ call.base = <<"a", "/", "a">>
    /\ call.name = <<".", ".", "/", ".", ".">>
    /\ call.out1 = <<".", ".">>

\* --------------------------------------------------- the loader on its own
\* a tree with plain, TypeScript and JSX modules, a directory with an index
\* file, a directory without one, and a file that is not UTF-8
ModulesDir ==
    Dir(<<[path |-> "lib.js", text |-> <<"setg">>],
          [path |-> "lib.ts", text |-> <<"sum_ts">>],
          [path |-> "view.tsx", text |-> <<"view_tsx">>],
          [path |-> "pages/home.jsx", text |-> <<"home_jsx">>],
          [path |-> "bad.jsx", text |-> <<"bad_jsx">>],
          [path |-> "util/index.js", text |-> <<"log">>],
          [path |-> "assets/logo.txt", text |-> <<"logo">>],
          [path |-> "blob.js", text |-> <<"\\xff">>]>>)

\* the trees the loader is asked in (NoDir: none committed)
LoaderTrees == {NoDir, ModulesDir, PagesDir, LibDir, BrokenPagesDir}

\* the canonical names the engine asks for
ModuleNames ==
    {"/jsx-runtime", "lib.js", "lib.ts", "view.tsx", "pages/home.jsx", "bad.jsx", "util",
     "util/index.js", "assets", "assets/logo.txt", "pages", "pages/index.js", "missing.js",
     "blob.js"}

\* The engine is about to load module `name`; the runtime was constructed
\* with the tree `dir` or with none.
LoaderInit ==
    /\ \E dir \in LoaderTrees : PoolInitWith(0, NoFunctions, dir)
    /\ \E name \in ModuleNames : call = [op |-> "load", name |-> name, step |-> 0, out |-> LoadErr("")]

\* module_loader(name) is called (runtime.rs 333-362)
Load ==
    /\ call.op = "load" /\ call.step = 0
    /\ call' = [call EXCEPT !.step = 1, !.out = module_loader(JS_SRC_DIR, call.name)]
    /\ UNCHANGED <<workers, functions, JS_SRC_DIR, supplied, api, senders, queue, script, chan,
                   delivered, order, workerVars>>

LoaderNext ==
    \/ Load

LoaderSpec == LoaderInit /\ [][LoaderNext]_vars

\* the loader has answered
HasLoaded == call.op = "load" /\ call.step = 1

\* the directory a path lies in, "" for a path at the root of the tree
DirectoryOf(path) ==
    CASE path \in {"pages/index.js", "pages/home.jsx"} -> "pages"
      [] path \in {"util/index.js"} -> "util"
      [] path \in {"assets/logo.txt"} -> "assets"
      [] OTHER -> ""

\* the index file of a directory
IndexOf(name) ==
    CASE name = "pages" -> "pages/index.js"
      [] name = "util" -> "util/index.js"
      [] name = "assets" -> "assets/index.js"
      [] OTHER -> ""

\* name is a directory of the tree: some file lies in it
IsDirectory(dir, name) == \E i \in 1..Len(dir.files) : DirectoryOf(dir.files[i].path) = name

\* the text of a file of the tree
TextOf(dir, path) == dir.files[GetFile(dir, path)].text

\* the loader failed because the module does not exist
ModuleNotFound(out) == ~out.ok /\ out.err = "Module not found"

\* C24: the module loader returns the bundled built-in source for the
\* specifier /jsx-runtime in every state, including when no source tree has
\* been committed; for any other name with no source tree committed it fails.
C24_BuiltinAlwaysLoads ==
    HasLoaded =>
        /\ call.name = "/jsx-runtime" => call.out = Loaded(<<"jsx.js">>)
        /\ call.name # "/jsx-runtime" /\ ~JS_SRC_DIR.set => ~call.out.ok

\* no tree was committed and the loader answered /jsx-runtime with the
\* built-in source
C24_Witness ==
    /\ HasLoaded
    /\ ~JS_SRC_DIR.set
    /\ call.name = "/jsx-runtime"
    /\ call.out.ok /\ call.out.text = <<"jsx.js">>

\* C25: when the canonical name looked up by the module loader is a
\* directory of the source tree, the loader returns the text of
\* <dir>/index.js if that file exists and fails with ModuleNotFound
\* otherwise; a name that is neither a file nor a directory fails with
\* ModuleNotFound.
C25_DirectoryIndexFallback ==
    HasLoaded /\ JS_SRC_DIR.set /\ call.name # "/jsx-runtime" =>
        /\ IsDirectory(JS_SRC_DIR, call.name) /\ Contains(JS_SRC_DIR, IndexOf(call.name))
              => call.out = Loaded(TextOf(JS_SRC_DIR, IndexOf(call.name)))
        /\ IsDirectory(JS_SRC_DIR, call.name) /\ ~Contains(JS_SRC_DIR, IndexOf(call.name))
              => ModuleNotFound(call.out)
        /\ ~IsDirectory(JS_SRC_DIR, call.name) /\ ~Contains(JS_SRC_DIR, call.name)
              => ModuleNotFound(call.out)

\* C26: the module loader passes the source through the transpiler exactly
\* when the module name ends in .jsx, .tsx or .ts (with the kind matching the
\* extension) and returns the source text verbatim for every other name.
C26_TranspiledByExtension ==
    HasLoaded /\ JS_SRC_DIR.set /\ Contains(JS_SRC_DIR, call.name)
        /\ contents_utf8(TextOf(JS_SRC_DIR, call.name)).ok =>
        LET text == TextOf(JS_SRC_DIR, call.name)
        IN /\ Extension(call.name) = ".jsx" /\ transpile_jsx(text).ok
                 => call.out = Loaded(transpile_jsx(text).text)
           /\ Extension(call.name) = ".ts" /\ transpile(text).ok
                 => call.out = Loaded(transpile(text).text)
           /\ Extension(call.name) = ".tsx" => call.out # Loaded(text)
           /\ Extension(call.name) \notin {".jsx", ".ts", ".tsx"} => call.out = Loaded(text)

\* ------------------------------------------------------- pages at bootstrap
\* a file of the tree is a page: pages/<name>.jsx
IsPageFile(path) == DirectoryOf(path) = "pages" /\ Extension(path) = ".jsx"

\* the <name> of pages/<name>.jsx
PageNameOf(path) == IF path = "pages/home.jsx" THEN <<"home">> ELSE <<>>

\* the page names of the committed source tree
PageNames ==
    {PageNameOf(JS_SRC_DIR.files[i].path) :
        i \in {j \in 1..Len(JS_SRC_DIR.files) : IsPageFile(JS_SRC_DIR.files[j].path)}}

\* C27: after a worker's bootstrap, for every file pages/<name>.jsx of the
\* source tree the worker's function table contains a compiled invoker keyed
\* by <name>, and a Page request for <name> is served by selecting that
\* invoker from the table.
C27_PageInvokersInTable ==
    \A w \in Workers : InLoop(w) =>
        \A name \in PageNames :
            /\ HasFn(compiled_fns[w], name)
            /\ prepare_script(ScriptRenderPage(None, name), compiled_fns[w]).kind = "Compiled"

\* ------------------------------------------------------- the pool and render
\* render_script as it would be if render asked for a named function
render_script_named(args, page) == ScriptCompiledFunction(args, page)

\* The Script render puts in its message (runtime.rs 196-202)
render_script(args, page) == ScriptRenderPage(args, page)

\* an axum Html response
Html(body) == [tag |-> "Html", body |-> body]

\* res.map(|res| axum::response::Html(res.output)) (runtime.rs 210): the body
\* of a success, the error of a failure, NoResult while pending
render_response(res) ==
    IF res.tag = "Ok" THEN Html(res.output) ELSE res

\* Runtime::render (runtime.rs 189-204), up to the await: create the reply
\* channel, build the RenderPage script and send the message.
Render(r, args, page) ==
    /\ senders > 0
    /\ chan[r].rx = "none"
    /\ \A q \in Reqs : q < r => chan[q].rx # "none"
    /\ script' = [script EXCEPT ![r] = render_script(args, page)]
    /\ api' = [api EXCEPT ![r] = [op |-> "render", args |-> args, page |-> page]]
    /\ IF Receivers = {}
       THEN /\ chan' = [chan EXCEPT ![r] = [tx |-> "dropped", rx |-> "alive", value |-> NoResult, enq |-> FALSE]]
            /\ UNCHANGED queue
       ELSE /\ chan' = [chan EXCEPT ![r] = [tx |-> "alive", rx |-> "alive", value |-> NoResult, enq |-> TRUE]]
            /\ queue' = Append(queue, Message(r, render_script(args, page)))
    /\ UNCHANGED <<workers, functions, JS_SRC_DIR, supplied, call, senders, delivered, order,
                   workerVars>>

\* What the future of render resolves to (runtime.rs 206-210)
RenderValue(r) == render_response(FutureValue(r))

\* the trees of the runtimes that render
RenderTrees == {NoDir, PagesDir, BrokenPagesDir}

\* the calls of render the host makes: a registered page and an unknown one
RenderCalls == {[args |-> SomeArg, page |-> <<"home">>], [args |-> None, page |-> <<"about">>]}

\* the calls of execute_script the host makes: the same pages, and a script
\* that logs
RenderScripts ==
    {ScriptRenderPage(SomeArg, <<"home">>),
     ScriptRenderPage(None, <<"about">>),
     ScriptFunction(None, <<"log">>)}

RenderInit == \E n \in 0..MaxWorkers : \E dir \in RenderTrees : InitWith(n, NoFunctions, dir)

RenderAny == \E r \in Reqs : \E c \in RenderCalls : Render(r, c.args, c.page)
SubmitRender == \E r \in Reqs : \E s \in RenderScripts : Submit(r, s)

RenderNext ==
    \/ RenderAny
    \/ SubmitRender
    \/ DropFutureAny
    \/ DropRuntime
    \/ BootOkAny
    \/ BootErrAny
    \/ RecvAny
    \/ StepAny
    \/ ReplyAny
    \/ ExitAny

RenderSpec == RenderInit /\ [][RenderNext]_vars

\* request r was made by render
ByRender(r) == api[r].op = "render"

\* the number of messages of request r in the queue
Queued(r) == Cardinality({i \in 1..Len(queue) : queue[i].id = r})

\* how often the workers have received request r
Received(r) ==
    Cardinality({x \in Workers \X (1..MaxReq) : x[2] <= Len(received[x[1]]) /\ received[x[1]][x[2]] = r})

\* two results differ at most in the request they belong to
SameResult(v1, v2) == [v1 EXCEPT !.of = 0] = [v2 EXCEPT !.of = 0]

\* C28: render(args, page) behaves as execute(Page{args, name: page}).  The
\* call puts exactly one message in the queue (none when no receiver is
\* left), whose script is Page{args, name: page}, and nothing else; the
\* request is never in the queue or received more than once; a success of
\* the request becomes an HTML body equal to the output the worker sent, and
\* a failure is the error execute_script yields for the same outcome; and a
\* request made by render resolves like a request made by execute_script
\* with the same Page script.
C28_RenderIsExecutePage ==
    /\ [][\A r \in Reqs : api'[r] # api[r] =>
            /\ script'[r] = ScriptRenderPage(api'[r].args, api'[r].page)
            /\ queue' = IF Receivers = {} THEN queue ELSE Append(queue, Message(r, script'[r]))
            /\ \A q \in Reqs \ {r} : script'[q] = script[q] /\ chan'[q] = chan[q]]_vars
    /\ [](\A r \in Reqs : ByRender(r) =>
            /\ Queued(r) + Received(r) <= 1
            /\ \A i \in 1..Len(delivered[r]) :
                  /\ delivered[r][i].tag = "Ok" => RenderValue(r) = Html(delivered[r][i].output)
                  /\ delivered[r][i].tag = "Err" => RenderValue(r) = delivered[r][i]
            /\ chan[r].tx = "dropped" => RenderValue(r) = Err("Unexpected", <<"channel closed">>, r)
            /\ \A q \in Reqs :
                  /\ ~ByRender(q) /\ script[q] = script[r]
                  /\ FutureValue(q).tag # "None" /\ FutureValue(r).tag # "None"
                  /\ FutureValue(q).error # "Unexpected" /\ FutureValue(r).error # "Unexpected"
                  => SameResult(render_response(FutureValue(q)) , RenderValue(r)))

\* render(7, "home") and execute_script(Page{7, "home"}) were both answered by
\* workers that registered the page, and the HTML body of the first is the
\* output of the second
C28_Witness ==
    \E r, q \in Reqs :
        /\ ByRender(r) /\ ~ByRender(q)
        /\ script[q] = ScriptRenderPage(SomeArg, <<"home">>)
        /\ script[r] = script[q]
        /\ Len(delivered[r]) = 1 /\ Len(delivered[q]) = 1
        /\ delivered[q][1].tag = "Ok"
        /\ RenderValue(r) = Html(<<"<", "home", ">", "7", "</", "home", ">">>)
        /\ RenderValue(r).body = delivered[q][1].output

\* -------------------------------------------------- args of an evaluation
\* C29: the args global is rebound on every evaluation: a script always
\* observes the argument value of its own request, and a request with no
\* args observes null, never the args left behind by an earlier request on
\* the same worker.  While a worker evaluates a request the args global of
\* its context is the converted args of that request, and a function that
\* returns args answers with them.
C29_ArgsRebound ==
    /\ \A w \in Workers :
          pc[w] = "busy" /\ failed[w].tag # "Err" =>
              globals[ContextOf(w)].args = to_js(cur[w].script.args)
    /\ \A r \in Reqs : \A i \in 1..Len(delivered[r]) :
          delivered[r][i].tag = "Ok" /\ Program(SourceOf(script[r])).value = "$args" =>
              delivered[r][i].output = <<to_js(script[r].args)>>

\* one worker answered sum.js called with 7 and then sum.ts called without
\* args: the first answer is 7, the second null
C29_Witness ==
    \E w \in Workers :
        /\ Len(replied[w]) = 2
        /\ script[replied[w][1]] = ScriptCompiledFunction(SomeArg, <<"sum", ".js">>)
        /\ script[replied[w][2]] = ScriptCompiledFunction(None, <<"sum", ".ts">>)
        /\ Len(delivered[replied[w][1]]) = 1 /\ delivered[replied[w][1]][1].output = <<"7">>
        /\ Len(delivered[replied[w][2]]) = 1 /\ delivered[replied[w][2]][1].output = <<"null">>

\* ------------------------------------------- the pool from bootstrap onwards
\* the configurations: functions that compile or not, with and without a
\* tree whose page module runs or fails
BootFunctions == {GoodFunctions, BadTsFunctions}
BootTrees == {NoDir, PagesDir, BrokenPagesDir}

\* the requests the host submits: a named function, a page and a script that
\* logs
BootScripts ==
    {ScriptCompiledFunction(SomeArg, <<"sum", ".js">>),
     ScriptRenderPage(None, <<"home">>),
     ScriptFunction(None, <<"log">>)}

BootInit ==
    \E n \in 0..MaxWorkers : \E fns \in BootFunctions : \E dir \in BootTrees : InitWith(n, fns, dir)

SubmitBoot == \E r \in Reqs : \E s \in BootScripts : Submit(r, s)

BootNext ==
    \/ SubmitBoot
    \/ DropFutureAny
    \/ DropRuntime
    \/ BootOkAny
    \/ BootErrAny
    \/ RecvAny
    \/ StepAny
    \/ ReplyAny
    \/ ExitAny

BootSpec == BootInit /\ [][BootNext]_vars

\* the bootstrap of worker w has completed: the thread is in its receive
\* loop, the context carries ctx and what the page step left in it, and the
\* table holds every configured function
Booted(w) ==
    /\ pc[w] \in {"recv", "busy", "loop", "exit"}
    /\ init(functions, JS_SRC_DIR).ok
    /\ w \in globals[ContextOf(w)].users
    /\ globals[ContextOf(w)].ctx = "script"
    /\ globals[ContextOf(w)].hasPages = init(functions, JS_SRC_DIR).globals.hasPages
    /\ globals[ContextOf(w)].Pages = init(functions, JS_SRC_DIR).globals.Pages
    /\ compiled_fns[w] = init(functions, JS_SRC_DIR).compiled_fns
    /\ \A i \in 1..Len(functions) : HasFn(compiled_fns[w], functions[i].name)

\* q1 is an initial part of q2
IsPrefix(q1, q2) == Len(q1) <= Len(q2) /\ SubSeq(q2, 1, Len(q1)) = q1

\* C30: a worker receives its first message only after its bootstrap has
\* completed (context built, ctx global set, every configured function
\* compiled into the table, the page step run), and bootstrap runs once per
\* worker: a worker that left it never re-enters it.  A request enqueued
\* before that point waits in the queue: a worker in bootstrap cannot
\* receive, and while every thread that holds the receiver is in bootstrap
\* and one of them remains, the queue only grows.
C30_ReceivesAfterBootstrap ==
    /\ [](\A w \in Workers :
            /\ received[w] # <<>> => Booted(w)
            /\ pc[w] = "boot" => received[w] = <<>> /\ ~ENABLED Recv(w))
    /\ [][/\ \A w \in Workers :
               /\ received'[w] # received[w] => pc[w] = "recv" /\ Booted(w)
               /\ pc'[w] = "boot" => pc[w] = "boot"
          /\ (/\ Receivers # {}
              /\ \A w \in Receivers : pc[w] = "boot"
              /\ \E w \in Workers : pc'[w] = "boot")
             => IsPrefix(queue, queue')]_vars

\* a request waits in the queue while one worker is still in bootstrap, and
\* the other worker, whose bootstrap compiled the functions and registered
\* the page, has received a request
C30_Witness ==
    \E w, v \in Workers :
        /\ pc[v] = "boot" /\ queue # <<>>
        /\ received[w] # <<>>
        /\ Len(compiled_fns[w]) = 3
        /\ "home" \in globals[ContextOf(w)].Pages

\* ------------------------------------------------- the end of the loop
\* C31: the receive loop of a worker terminates when the request channel is
\* closed.  A worker leaves its loop only from a recv that found the queue
\* empty and no Runtime handle alive, so it never exits while a sender
\* handle is alive and never leaves a message behind; and (under fair
\* scheduling) once every handle has been dropped, each worker that is
\* receiving or evaluating eventually exits, unless it is stuck in a script
\* that never returns.
C31_LoopEndsWhenChannelCloses ==
    /\ [](\A w \in Workers : pc[w] = "exit" => senders = 0)
    /\ [][\A w \in Workers :
            pc'[w] = "exit" /\ pc[w] # "exit" =>
                pc[w] = "recv" /\ senders = 0 /\ queue = <<>> /\ queue' = <<>>]_vars
    /\ \A w \in Workers :
          (senders = 0 /\ pc[w] \in {"recv", "busy"}) ~> (pc[w] \in {"exit", "loop"})

\* every handle is dropped, and a worker that answered a request has
\* left its loop with nothing queued, while the other worker is stuck
C31_Witness ==
    \E w, v \in Workers :
        /\ senders = 0 /\ queue = <<>>
        /\ pc[w] = "exit" /\ Len(replied[w]) = 1
        /\ pc[v] = "loop"

\* ------------------------------------------------- the walk of the resolver
\* the pieces of a name that are components: not empty and not "."
NamedPieces(name) == SelectSeq(SplitSlash(name), LAMBDA p : p # <<>> /\ p # <<".">>)

\* a list without its last element
Front(list) == IF Len(list) = 0 THEN <<>> ELSE SubSeq(list, 1, Len(list) - 1)

RECURSIVE Walked(_)
\* the output list after the components were walked from left to right: the
\* list after all but the last of them, then the last one applied: ".." pops
\* the last element when there is one and it is not "..", and is appended
\* otherwise; any other component is appended
Walked(comps) ==
    IF Len(comps) = 0 THEN <<>>
    ELSE LET list == Walked(Front(comps))
             c == comps[Len(comps)]
         IN IF c = <<".", ".">> /\ Len(list) > 0 /\ list[Len(list)] # <<".", ".">>
            THEN Front(list)
            ELSE Append(list, c)

\* C32: for a specifier starting with ./ or ../, the resolver's result equals
\* the slash-joined list obtained by walking the components of dirname(base)
\* joined with the specifier from left to right: . is skipped, a normal
\* component is appended, .. pops the last element when one exists and is
\* not .. and is appended otherwise, and a root component clears the list
\* (it can only come first, when the list is empty).
C32_WalksComponents ==
    call.op = "normalize" /\ call.step >= 1 /\ BeginsRelative(call.name) =>
        call.out1 = JoinSlash(Walked(Front(NamedPieces(call.base)) \o NamedPieces(call.name)))

\* a specifier that climbs out of the directory of its base and names a
\* module next to that directory
C32_Witness ==
    /\ call.op = "normalize" /\ call.step >= 1
    /\ call.base = <<"a", "/", "a">>
    /\ call.name = <<".", ".", "/", "a">>
    /\ call.out1 = <<"a">>

\* ------------------------------------------------ one request, one worker
\* how often the workers have answered request r
Replied(r) ==
    Cardinality({x \in Workers \X (1..MaxReq) : x[2] <= Len(replied[x[1]]) /\ replied[x[1]][x[2]] = r})

\* the workers that hold request r in their loop body
Evaluating(r) == {w \in Workers : cur[w].id = r}

\* C33: every enqueued request is received by at most one worker and its
\* script is evaluated at most once.  A request is in the queue or was
\* received, never both and never twice; at most one worker holds it and it
\* is answered at most once; and the step that receives it takes it off the
\* head of the queue, in one worker only.
C33_ReceivedAtMostOnce ==
    /\ [](\A r \in Reqs :
            /\ Queued(r) + Received(r) <= 1
            /\ Cardinality(Evaluating(r)) <= 1
            /\ Replied(r) <= Received(r)
            /\ chan[r].enq /\ chan[r].tx = "alive" => Queued(r) + Received(r) = 1)
    /\ [][\A w \in Workers :
            received'[w] # received[w] =>
                /\ queue # <<>>
                /\ received'[w] = Append(received[w], Head(queue).id)
                /\ queue' = Tail(queue)
                /\ \A v \in Workers \ {w} : received'[v] = received[v] /\ cur'[v] = cur[v]]_vars

\* two requests were queued and two workers hold one of them each
C33_Witness ==
    \E w, v \in Workers :
        /\ w # v /\ queue = <<>>
        /\ \A x \in {w, v} : pc[x] = "busy" /\ Len(received[x]) = 1 /\ replied[x] = <<>>
        /\ \A r \in 1..2 : Received(r) = 1 /\ Cardinality(Evaluating(r)) = 1

\* -------------------------------------------- the context between requests
\* two contexts agree on every global but args (users is history)
SameButArgs(g1, g2) ==
    /\ g1.ctx = g2.ctx
    /\ g1.g = g2.g
    /\ g1.n = g2.n
    /\ g1.hasPages = g2.hasPages
    /\ g1.Pages = g2.Pages

\* C34: a worker's interpreter context is never reset between requests.
\* The steps between two evaluations of a worker (answering a request,
\* waiting, receiving the next one) leave every global of its context as it
\* was, except args, which the receipt rebinds to the args of the request,
\* and the console sink, which the receipt replaces by an empty one; so a
\* global written by a script a worker answered is still bound afterwards,
\* and the page registry set at bootstrap stays.
C34_ContextKeptBetweenRequests ==
    /\ [][\A w \in Workers :
            /\ received'[w] # received[w] \/ replied'[w] # replied[w] =>
                  SameButArgs(globals'[ContextOf(w)], globals[ContextOf(w)])
            /\ received'[w] # received[w] /\ failed'[w].tag # "Err" =>
                  /\ globals'[ContextOf(w)].args = to_js(cur'[w].script.args)
                  /\ console'[SinkOf(w)] = ConsoleNew]_vars
    /\ [](\A w \in Workers :
            /\ (\E k \in 1..Len(replied[w]) : WritesG(script[replied[w][k]]))
                  => globals[ContextOf(w)].g = "7"
            /\ InLoop(w) => globals[ContextOf(w)].Pages = init(functions, JS_SRC_DIR).globals.Pages)

\* a worker answered a script that wrote g and then a script that read g,
\* and the second saw the value the first had written
C34_Witness ==
    \E w \in Workers :
        /\ Len(replied[w]) = 2
        /\ WritesG(script[replied[w][1]]) /\ ReadsG(script[replied[w][2]])
        /\ Len(delivered[replied[w][2]]) = 1
        /\ delivered[replied[w][2]][1].output = <<"7">>
        /\ globals[ContextOf(w)].args = "null"

\* ------------------------------------------------- a runtime without workers
\* C35: if a runtime has no worker at all (constructed with workers = 0),
\* every execute call resolves with an Unexpected error instead of staying
\* pending: the enqueue fails because no receiver exists, the message with
\* its reply sender is dropped, and the caller's await observes the closed
\* reply channel.
C35_NoWorkerNoPending ==
    workers = 0 =>
        /\ queue = <<>>
        /\ \A r \in Reqs :
              chan[r].rx # "none" =>
                  /\ ~chan[r].enq
                  /\ chan[r].tx = "dropped"
                  /\ delivered[r] = <<>>
                  /\ FutureValue(r) = Err("Unexpected", <<"channel closed">>, r)

\* a runtime without workers was called twice and both calls have resolved
\* with Unexpected
C35_Witness ==
    /\ workers = 0
    /\ \A r \in 1..2 : chan[r].rx = "alive" /\ FutureValue(r).error = "Unexpected"

\* ------------------------------------------------- what a failure carries
\* C36: when the evaluation of a request fails, the reply is an error value
\* that carries no console output: the lines the script logged before
\* failing are not delivered to the caller.  Every error delivered or
\* stored in a reply channel has no output and no console text, whatever the
\* console of the worker holds.
C36_ErrorCarriesNoConsole ==
    \A r \in Reqs :
        /\ \A i \in 1..Len(delivered[r]) :
              delivered[r][i].tag = "Err" =>
                  /\ delivered[r][i].console_output = <<>>
                  /\ delivered[r][i].lines_by = <<>>
                  /\ delivered[r][i].output = <<>>
        /\ FutureValue(r).tag = "Err" => FutureValue(r).console_output = <<>>

\* a script logged a line and then threw: the console of the worker that
\* answered holds the line, the error delivered to the caller does not
C36_Witness ==
    \E w \in Workers : \E r \in Reqs :
        /\ Len(replied[w]) > 0 /\ replied[w][Len(replied[w])] = r
        /\ pc[w] = "recv"
        /\ script[r] = ScriptFunction(None, <<"throw">>)
        /\ ConsoleText(console[SinkOf(w)]) # <<>>
        /\ Len(delivered[r]) = 1
        /\ delivered[r][1].tag = "Err" /\ delivered[r][1].error = "Execution"
        /\ delivered[r][1].console_output = <<>>

\* ------------------------------------------------- a Script from JSON
\* A JSON object as far as the derive looks at it: for each key whether it
\* is absent or what kind of value it holds.  The string under code is the
\* text "log", the string under name is "home", the number is 7.
JsonObject(args, code, name, extra) == [args |-> args, code |-> code, name |-> name, extra |-> extra]

\* the objects handed to the deserialiser
JsonObjects ==
    {JsonObject(a, c, n, e) : a \in {"absent", "null", "number"}, c \in {"absent", "string", "number"},
                              n \in {"absent", "string", "number"}, e \in {"absent", "number"}}

\* The variants of Script in the order of declaration (runtime.rs 57-69):
\* RenderPage exists only when the crate is built with feature transpiling
Variants(build) ==
    IF build = "transpiling" THEN <<"Function", "RenderPage", "CompiledFunction">>
    ELSE <<"Function", "CompiledFunction">>

\* args: Option<Value>: an absent key and null give None, any value Some
OptionValue(kind) == IF kind \in {"absent", "null"} THEN None ELSE SomeArg

\* The derived Deserialize of one struct variant: the String field must be
\* there and hold a string; args may be absent; other keys are ignored.
DeserializeVariant(variant, json) ==
    CASE variant = "Function" ->
            [ok |-> json.code = "string", script |-> ScriptFunction(OptionValue(json.args), <<"log">>)]
      [] variant = "RenderPage" ->
            [ok |-> json.name = "string", script |-> ScriptRenderPage(OptionValue(json.args), <<"home">>)]
      [] OTHER ->
            [ok |-> json.name = "string", script |-> ScriptCompiledFunction(OptionValue(json.args), <<"home">>)]

\* #[serde(untagged)] (runtime.rs 55): the variants are tried in the order
\* of declaration and the first that deserialises is the result; an error
\* when none does.
Deserialize(build, json) ==
    LET tried == Variants(build)
        fit == {k \in 1..Len(tried) : DeserializeVariant(tried[k], json).ok}
    IN IF fit = {} THEN [ok |-> FALSE, script |-> NoMessage.script]
       ELSE DeserializeVariant(tried[CHOOSE k \in fit : \A j \in fit : k <= j], json)

\* the builds of the crate: with and without feature transpiling
Builds == {"transpiling", "plain"}

\* The host is about to deserialise a JSON object into a Script.
JsonInit ==
    /\ PoolInitWith(0, NoFunctions, NoDir)
    /\ \E b \in Builds : \E j \in JsonObjects :
          call = [op |-> "deserialize", build |-> b, json |-> j, step |-> 0,
                  out |-> [ok |-> FALSE, script |-> NoMessage.script]]

\* Script::deserialize is called on the object
FromJson ==
    /\ call.op = "deserialize" /\ call.step = 0
    /\ call' = [call EXCEPT !.step = 1, !.out = Deserialize(call.build, call.json)]
    /\ UNCHANGED <<workers, functions, JS_SRC_DIR, supplied, api, senders, queue, script, chan,
                   delivered, order, workerVars>>

JsonNext ==
    \/ FromJson

JsonSpec == JsonInit /\ [][JsonNext]_vars

\* some object deserialises to the variant in the build
Reachable(build, variant) ==
    \E j \in JsonObjects : Deserialize(build, j).ok /\ Deserialize(build, j).script.variant = variant

\* C37: deserialising a Script from JSON selects the variant by shape, and
\* each of the three request kinds is reachable that way: an object carrying
\* code becomes an Inline request, and there are JSON objects that
\* deserialise to a Named (CompiledFunction) request and to a Page
\* (RenderPage) request.
C37_EveryKindReachable ==
    call.op = "deserialize" /\ call.step = 1 =>
        /\ call.json.code = "string" => call.out.ok /\ call.out.script.variant = "Function"
        /\ Reachable(call.build, "CompiledFunction")
        /\ Reachable(call.build, "RenderPage")

====
